---- MODULE Spec2Model ----
(***************************************************************************)
(* Entitlement reconciliation of the Seolaxy Discord bot: the role         *)
(* dispatcher, the dual-cadence subscription polling, the pending-checkout *)
(* tracker and the one-time reset / migration guards.                      *)
(*                                                                         *)
(* An action is a handler from one suspension to the next: the code that   *)
(* runs between two awaits, with the awaited calls of one loop turn taken  *)
(* together where nothing else can observe the steps between them.  Code   *)
(* that touches the timers or the tracker is always one synchronous block. *)
(* Time is counted in minutes.                                             *)
(***************************************************************************)
EXTENDS Integers, Sequences, FiniteSets, TLC

(***************************************************************************)
(* Identities and the fixed order in which listings return them.           *)
(***************************************************************************)
Users == {"u1", "u2"}

UserOrder == <<"u1", "u2">>

(***************************************************************************)
(* Roles (src/constants/roles.js).                                         *)
(***************************************************************************)
ENGLISH == "ENGLISH"

BOSNIAN_CROATIAN_SERBIAN == "BOSNIAN_CROATIAN_SERBIAN"

ENGLISH_MEMBER == "ENGLISH_MEMBER"

BOSNIAN_CROATIAN_SERBIAN_MEMBER == "BOSNIAN_CROATIAN_SERBIAN_MEMBER"

MEMBER == "MEMBER"

UNVERIFIED == "UNVERIFIED"

LanguageRoles == {ENGLISH, BOSNIAN_CROATIAN_SERBIAN}

RoleIds == {ENGLISH, BOSNIAN_CROATIAN_SERBIAN, ENGLISH_MEMBER,
            BOSNIAN_CROATIAN_SERBIAN_MEMBER, MEMBER, UNVERIFIED}

\* memberRoles of removeSubscriptionRoles / MEMBER_ROLE_IDS of the manual reset,
\* in the order the code walks them
MEMBER_ROLE_IDS == <<MEMBER, ENGLISH_MEMBER, BOSNIAN_CROATIAN_SERBIAN_MEMBER>>

MemberRoleSet == {MEMBER_ROLE_IDS[i] : i \in 1..Len(MEMBER_ROLE_IDS)}

\* A chat-platform call is named by the role it adds or removes; NoFail means
\* that every call of the operation succeeds.
NoFail == "NoFail"

FailChoices == RoleIds \cup {NoFail}

(***************************************************************************)
(* assignSubscriptionRoles on the role set of a present member.  failRole  *)
(* is the role whose add/remove call rejects; the function catches the     *)
(* rejection and returns, keeping what was done before it.                 *)
(***************************************************************************)
ResolveMemberRole(rs) ==
    IF ENGLISH \in rs THEN ENGLISH_MEMBER
    ELSE IF BOSNIAN_CROATIAN_SERBIAN \in rs THEN BOSNIAN_CROATIAN_SERBIAN_MEMBER
    ELSE MEMBER

\* A plausible slip: "else if" between the two steps, so that a call which
\* removes UNVERIFIED does not go on to add the member role.
AssignOneStepPerCall(rs, failRole) ==
    IF UNVERIFIED \in rs
    THEN IF failRole = UNVERIFIED THEN rs ELSE rs \ {UNVERIFIED}
    ELSE IF ResolveMemberRole(rs) \notin rs /\ failRole # ResolveMemberRole(rs)
         THEN rs \cup {ResolveMemberRole(rs)}
         ELSE rs

AssignSubscriptionRoles(rs, failRole) ==
    LET threwOnUnverified == UNVERIFIED \in rs /\ failRole = UNVERIFIED
        afterUnverified == IF threwOnUnverified THEN rs ELSE rs \ {UNVERIFIED}
        memberRole == ResolveMemberRole(rs)
    IN  IF threwOnUnverified THEN rs
        ELSE IF memberRole \notin afterUnverified /\ failRole # memberRole
             THEN afterUnverified \cup {memberRole}
             ELSE afterUnverified

(***************************************************************************)
(* The role-removal loop shared by removeSubscriptionRoles and the manual  *)
(* reset: walk MEMBER_ROLE_IDS from index i, remove each role held, then   *)
(* add UNVERIFIED back.  Returns the role set and whether a call threw.    *)
(***************************************************************************)
RECURSIVE RemoveMemberRolesFrom(_, _, _)
RemoveMemberRolesFrom(rs, i, failRole) ==
    IF i > Len(MEMBER_ROLE_IDS)
    THEN IF UNVERIFIED \notin rs
         THEN IF failRole = UNVERIFIED
              THEN [roles |-> rs, thrown |-> TRUE]
              ELSE [roles |-> rs \cup {UNVERIFIED}, thrown |-> FALSE]
         ELSE [roles |-> rs, thrown |-> FALSE]
    ELSE IF MEMBER_ROLE_IDS[i] \in rs
         THEN IF failRole = MEMBER_ROLE_IDS[i]
              THEN [roles |-> rs, thrown |-> TRUE]
              ELSE RemoveMemberRolesFrom(rs \ {MEMBER_ROLE_IDS[i]}, i + 1, failRole)
         ELSE RemoveMemberRolesFrom(rs, i + 1, failRole)

\* A plausible slip: the member roles are removed and UNVERIFIED is not added
\* back.
RemoveMemberRolesOnly(rs, failRole) ==
    IF failRole \in rs \cap MemberRoleSet THEN rs ELSE rs \ MemberRoleSet

\* removeSubscriptionRoles: the rejection is caught inside, only the role set
\* is visible to the caller
RemoveSubscriptionRoles(rs, failRole) == RemoveMemberRolesFrom(rs, 1, failRole).roles

(***************************************************************************)
(* The entitlement store (table users of src/services/database.js) and the *)
(* billing provider.                                                       *)
(***************************************************************************)
\* SQL NULL of a text column, and of a TIMESTAMP column
Null == "null"

NullTime == -1

Statuses == {"none", "trialing", "active", "past_due", "canceled", "unpaid"}

SubIds == {"s1", "s2"}

\* the provider lists subscriptions in this order
SubOrder == <<"s1", "s2">>

CustomerOf(u) == IF u = "u1" THEN "cus_u1" ELSE "cus_u2"

UserRow(status, sub, cust, ends, legacy) ==
    [subscription_status |-> status, stripe_subscription_id |-> sub,
     stripe_customer_id |-> cust, subscription_ends_at |-> ends,
     is_legacy_user |-> legacy]

VARIABLES
    db,          \* the rows of table users, by discord_id
    roles,       \* [Users -> role set the member holds in the guild]
    inGuild,     \* [Users -> whether guild.members.fetch finds the member]
    stripeSubs,  \* the provider's subscriptions, by subscription id
    now          \* the clock, in fast-polling intervals

worldVars == <<db, roles, inGuild, stripeSubs, now>>

(***************************************************************************)
(* Migration / reset guard.                                                *)
(*   flag        bot_state flag RESET_FLAG_NAME: absent, in_progress,      *)
(*               completed                                                 *)
(*   ginv        the scheduleReset / flag-guarded executeReset invocations *)
(*   minv        the reset-all command invocations (manual executeReset)   *)
(*   marker      row legacy_users_grace_period of migration_history        *)
(*   mig         the runs of the legacy migration script                   *)
(***************************************************************************)
MaxGuarded == 2

MaxManual == 1

MaxMigrations == 2

Guarded == 1..MaxGuarded

Manual == 1..MaxManual

Migrations == 1..MaxMigrations

VARIABLES
    flag, targetPassed, ginv, minv, marker, mig,
    \* history of the guarded operations, read by the properties only
    bodyRuns,    \* guarded reset bodies entered (flag written in_progress)
    passes,      \* reset passes, guarded or manual, that processed an item
    migRuns,     \* executions of the migration UPDATE
    overlapped   \* the operations of which one invocation started while another was in flight

resetVars == <<flag, targetPassed, ginv, minv, marker, mig,
               bodyRuns, passes, migRuns, overlapped>>

(***************************************************************************)
(* Subscription polling service (src/services/subscriptionService.js).     *)
(*   normalPollingInterval  whether the handle of the slow timer is set    *)
(*   normalDue              when the slow timer is next due                *)
(*   slow                   the checkAllSubscriptions invocations in       *)
(*                          flight, each with what it has read so far      *)
(***************************************************************************)
MaxSlow == 2

SlowSweeps == 1..MaxSlow

VARIABLES
    normalPollingInterval, normalDue, slow,
    \* history of the service, read by the properties only
    liveNormalTimers,  \* setInterval handles of the slow timer not yet cleared
    startCalls,        \* startPolling calls since the latest stopPolling, capped
    lastItem,          \* [Users -> what the latest sweep item for the user read and dispatched]
    everGranted,       \* [Users -> whether assignSubscriptionRoles was ever invoked for the user]
    roleCalls          \* [Users -> the run of direct, completed calls of one role operation]

(***************************************************************************)
(* The pending-checkout tracker and the fast timer.                        *)
(*   pendingCheckouts       the Map, as its entries in insertion order     *)
(*   fastPollingInterval    whether the handle of the fast timer is set    *)
(*   fastDue                when the fast timer is next due                *)
(*   sessions               the checkout sessions the provider has issued  *)
(*   fast                   the checkPendingCheckouts invocations          *)
(*   click                  the handleSubscribeButton invocations          *)
(***************************************************************************)
MaxFast == 2

MaxClicks == 2

MaxSessions == 2

FastSweeps == 1..MaxFast

Clicks == 1..MaxClicks

VARIABLES
    pendingCheckouts, fastPollingInterval, fastDue, sessions, fast, click,
    \* history, read by the properties only
    liveFastTimers,    \* setInterval handles of the fast timer not yet cleared
    lastRemoval        \* [Users -> the entry stopFastPolling deleted last, and why]

fastVars == <<pendingCheckouts, fastPollingInterval, fastDue, sessions, fast, click,
              liveFastTimers, lastRemoval>>

serviceVars == <<normalPollingInterval, normalDue, slow,
                 liveNormalTimers, startCalls, lastItem, everGranted, roleCalls, fastVars>>

\* what the slow timer and its sweeps never touch
sweepFrame == <<resetVars, roleCalls, fastVars>>

\* getResetFlag / setResetFlag of the bot_state table
GetResetFlag == flag

SetResetFlag(value) == flag' = value

\* resetUserSubscriptionData: the subscription columns go back to their defaults
ResetUserSubscriptionData(store, u) ==
    IF u \in DOMAIN store
    THEN [store EXCEPT ![u] = UserRow("none", Null, Null, NullTime, @.is_legacy_user)]
    ELSE store

\* getUsersWithActiveSubscriptions, as the rows the loop later reads
IsActiveSubscriber(row) ==
    /\ row.subscription_status \in {"active", "trialing", "past_due"}
    /\ row.stripe_subscription_id # Null

ActiveRow(u) == [discord_id |-> u, stripe_subscription_id |-> db[u].stripe_subscription_id]

GetUsersWithActiveSubscriptions ==
    LET keep(u) == u \in DOMAIN db /\ IsActiveSubscriber(db[u])
        us == SelectSeq(UserOrder, keep)
    IN  [k \in 1..Len(us) |-> ActiveRow(us[k])]

\* stripeService.cancelSubscription(id, true): never throws; on success the
\* provider's subscription becomes canceled
CancelSubscription(subs, id, ok) ==
    IF ok /\ id \in DOMAIN subs
    THEN [subs EXCEPT ![id].status = "canceled"]
    ELSE subs

ScriptNotRun == \A k \in Migrations : mig[k].pc = "idle"

GuardedInFlight(i) == ginv[i].pc \in {"exec_read", "exec_mark", "exec_fetch", "exec_loop", "exec_complete"}

\* A plausible slip: the check compares with the wrong state.
AlreadyCompletedWrongState(f) == f = "in_progress"

\* the flag check of scheduleReset and of executeReset
AlreadyCompleted(f) == f = "completed"

ExecuteResetCalled(i, viaTimer) ==
    /\ ginv' = [ginv EXCEPT ![i].pc = "exec_read", ![i].viaTimer = viaTimer,
                            ![i].schedFlag = IF viaTimer THEN @ ELSE GetResetFlag]
    /\ overlapped' = IF \E j \in Guarded \ {i} : GuardedInFlight(j)
                     THEN overlapped \cup {"reset"} ELSE overlapped

\* scheduleReset up to the setTimeout / the immediate executeReset()
ScheduleReset(i) ==
    /\ ginv[i].pc = "idle"
    /\ ScriptNotRun
    /\ IF i = 1 THEN TRUE ELSE ginv[i - 1].pc # "idle"
    /\ IF AlreadyCompleted(GetResetFlag)
       THEN /\ ginv' = [ginv EXCEPT ![i].pc = "done", ![i].schedFlag = GetResetFlag]
            /\ UNCHANGED overlapped
       ELSE IF targetPassed
            THEN /\ ExecuteResetCalled(i, FALSE)
            ELSE /\ ginv' = [ginv EXCEPT ![i].pc = "timer", ![i].schedFlag = GetResetFlag]
                 /\ UNCHANGED overlapped
    /\ UNCHANGED <<flag, targetPassed, minv, marker, mig, bodyRuns, passes, migRuns>>
    /\ UNCHANGED worldVars
    /\ UNCHANGED serviceVars

\* RESET_TARGET is reached
PassTarget ==
    /\ ~targetPassed
    /\ targetPassed' = TRUE
    /\ UNCHANGED <<flag, ginv, minv, marker, mig, bodyRuns, passes, migRuns, overlapped>>
    /\ UNCHANGED worldVars
    /\ UNCHANGED serviceVars

\* the setTimeout callback of scheduleReset
TimerFire(i) ==
    /\ ginv[i].pc = "timer"
    /\ targetPassed
    /\ ExecuteResetCalled(i, TRUE)
    /\ UNCHANGED <<flag, targetPassed, minv, marker, mig, bodyRuns, passes, migRuns>>
    /\ UNCHANGED worldVars
    /\ UNCHANGED serviceVars

\* A plausible slip: executeReset trusts the flag value scheduleReset read.
FlagCheckFromSchedule(i) == AlreadyCompleted(ginv[i].schedFlag)

\* executeReset reads the flag again when it runs
FlagCheckAtExecution(i) == AlreadyCompleted(GetResetFlag)

\* executeReset: "Double-check flag to prevent duplicate execution"
ExecReadFlag(i) ==
    /\ ginv[i].pc = "exec_read"
    /\ ginv' = [ginv EXCEPT ![i].readFlag = GetResetFlag,
                            ![i].pc = IF FlagCheckAtExecution(i)
                                      THEN "done" ELSE "exec_mark"]
    /\ UNCHANGED <<flag, targetPassed, minv, marker, mig, bodyRuns, passes, migRuns, overlapped>>
    /\ UNCHANGED worldVars
    /\ UNCHANGED serviceVars

\* executeReset: "Mark as in-progress"
ExecMarkInProgress(i) ==
    /\ ginv[i].pc = "exec_mark"
    /\ SetResetFlag("in_progress")
    /\ ginv' = [ginv EXCEPT ![i].pc = "exec_fetch", ![i].acted = TRUE]
    /\ bodyRuns' = bodyRuns + 1
    /\ UNCHANGED <<targetPassed, minv, marker, mig, passes, migRuns, overlapped>>
    /\ UNCHANGED worldVars
    /\ UNCHANGED serviceVars

\* executeReset: "Fetch all active subscribers"
ExecFetchUsers(i) ==
    /\ ginv[i].pc = "exec_fetch"
    /\ LET activeUsers == GetUsersWithActiveSubscriptions
       IN  ginv' = [ginv EXCEPT ![i].queue = activeUsers,
                                ![i].totalCount = Len(activeUsers),
                                ![i].pc = IF Len(activeUsers) = 0
                                          THEN "exec_complete" ELSE "exec_loop"]
    /\ UNCHANGED <<flag, targetPassed, minv, marker, mig, bodyRuns, passes, migRuns, overlapped>>
    /\ UNCHANGED worldVars
    /\ UNCHANGED serviceVars

\* executeReset: one turn of "for (const user of activeUsers)"; every step sits
\* in a try of its own, so the turn always reaches successCount++.  "steps" is
\* history: the steps the last turn reached.
ExecItem(i) ==
    /\ ginv[i].pc = "exec_loop"
    /\ LET user == Head(ginv[i].queue)
           u == user.discord_id
           rest == Tail(ginv[i].queue)
       IN  \E cancelOk \in BOOLEAN, failRole \in FailChoices, dbOk \in BOOLEAN :
              /\ stripeSubs' = CancelSubscription(stripeSubs, user.stripe_subscription_id, cancelOk)
              /\ roles' = IF inGuild[u]
                          THEN [roles EXCEPT ![u] = RemoveSubscriptionRoles(roles[u], failRole)]
                          ELSE roles
              /\ db' = IF dbOk THEN ResetUserSubscriptionData(db, u) ELSE db
              /\ ginv' = [ginv EXCEPT ![i].queue = rest,
                                      ![i].successCount = @ + 1,
                                      ![i].revokeFailed =
                                          IF inGuild[u] /\ RemoveMemberRolesFrom(roles[u], 1, failRole).thrown
                                          THEN @ + 1 ELSE @,
                                      ![i].steps =
                                          {"revoke", "record", "notify"} \cup
                                          IF user.stripe_subscription_id # Null
                                          THEN {"cancel"} ELSE {},
                                      ![i].processed = TRUE,
                                      ![i].pc = IF rest = <<>> THEN "exec_complete"
                                                ELSE "exec_loop"]
              /\ passes' = IF ginv[i].processed THEN passes ELSE passes + 1
    /\ UNCHANGED <<flag, targetPassed, minv, marker, mig, bodyRuns, migRuns, overlapped>>
    /\ UNCHANGED <<inGuild, now>>
    /\ UNCHANGED serviceVars

\* A plausible slip: the flag is completed only by a run without failures, so
\* that a failed run is taken up again.
ExecCompleteUnlessFailed(i) ==
    /\ ginv[i].pc = "exec_complete"
    /\ IF ginv[i].revokeFailed = 0 THEN SetResetFlag("completed") ELSE UNCHANGED flag
    /\ ginv' = [ginv EXCEPT ![i].pc = "done"]
    /\ UNCHANGED <<targetPassed, minv, marker, mig, bodyRuns, passes, migRuns, overlapped>>
    /\ UNCHANGED worldVars
    /\ UNCHANGED serviceVars

\* executeReset: "Mark as completed"
ExecComplete(i) ==
    /\ ginv[i].pc = "exec_complete"
    /\ SetResetFlag("completed")
    /\ ginv' = [ginv EXCEPT ![i].pc = "done"]
    /\ UNCHANGED <<targetPassed, minv, marker, mig, bodyRuns, passes, migRuns, overlapped>>
    /\ UNCHANGED worldVars
    /\ UNCHANGED serviceVars

(***************************************************************************)
(* The reset-all command: handleResetAllCommand and executeReset of        *)
(* src/services/subscriptionReset.js.                                      *)
(***************************************************************************)
HasMemberRole(u) == inGuild[u] /\ roles[u] \cap MemberRoleSet # {}

\* handleResetAllCommand up to "await guild.members.fetch()"
ManualStart(j) ==
    /\ minv[j].pc = "idle"
    /\ ScriptNotRun
    /\ IF j = 1 THEN TRUE ELSE minv[j - 1].pc # "idle"
    /\ minv' = [minv EXCEPT ![j].pc = "fetch_members"]
    /\ UNCHANGED <<flag, targetPassed, ginv, marker, mig, bodyRuns, passes, migRuns, overlapped>>
    /\ UNCHANGED worldVars
    /\ UNCHANGED serviceVars

\* executeReset: membersToReset, totalCount
ManualCollect(j) ==
    /\ minv[j].pc = "fetch_members"
    /\ LET membersToReset == SelectSeq(UserOrder, HasMemberRole)
       IN  minv' = [minv EXCEPT ![j].queue = membersToReset,
                                ![j].totalCount = Len(membersToReset),
                                ![j].pc = IF Len(membersToReset) = 0 THEN "done" ELSE "loop"]
    /\ UNCHANGED <<flag, targetPassed, ginv, marker, mig, bodyRuns, passes, migRuns, overlapped>>
    /\ UNCHANGED worldVars
    /\ UNCHANGED serviceVars

\* deleteUser
DeleteUser(store, u, ok) ==
    IF ok THEN [v \in DOMAIN store \ {u} |-> store[v]] ELSE store

\* executeReset: one turn of "for (const [, member] of membersToReset)"; a role
\* call that rejects is not caught by an inner try and ends the turn
ManualItem(j) ==
    /\ minv[j].pc = "loop"
    /\ LET u == Head(minv[j].queue)
           rest == Tail(minv[j].queue)
           linked == u \in DOMAIN db /\ db[u].stripe_subscription_id # Null
       IN  \E cancelOk \in BOOLEAN, failRole \in FailChoices, dbOk \in BOOLEAN :
             LET removed == IF inGuild[u]
                            THEN RemoveMemberRolesFrom(roles[u], 1, failRole)
                            ELSE [roles |-> roles[u], thrown |-> roles[u] \cap MemberRoleSet # {}]
             IN  /\ stripeSubs' = IF linked
                                  THEN CancelSubscription(stripeSubs, db[u].stripe_subscription_id, cancelOk)
                                  ELSE stripeSubs
                 /\ roles' = [roles EXCEPT ![u] = removed.roles]
                 /\ db' = IF removed.thrown THEN db ELSE DeleteUser(db, u, dbOk)
                 /\ minv' = [minv EXCEPT
                        ![j].queue = rest,
                        ![j].successCount = IF removed.thrown THEN @ ELSE @ + 1,
                        ![j].errorCount = IF removed.thrown THEN @ + 1 ELSE @,
                        ![j].revokeFailed = IF removed.thrown THEN @ + 1 ELSE @,
                        ![j].steps = (IF linked THEN {"cancel"} ELSE {}) \cup {"revoke"} \cup
                                     IF removed.thrown THEN {} ELSE {"record", "notify"},
                        ![j].processed = TRUE,
                        ![j].pc = IF rest = <<>> THEN "done" ELSE "loop"]
                 /\ passes' = IF minv[j].processed THEN passes ELSE passes + 1
    /\ UNCHANGED <<flag, targetPassed, ginv, marker, mig, bodyRuns, migRuns, overlapped>>
    /\ UNCHANGED <<inGuild, now>>
    /\ UNCHANGED serviceVars

(***************************************************************************)
(* The legacy migration script (scripts/migrate-legacy-users.js).          *)
(***************************************************************************)
GRACE_PERIOD_DAYS == 30

\* WHERE (is_legacy_user = FALSE OR is_legacy_user IS NULL)
\*   AND (stripe_subscription_id IS NULL OR stripe_subscription_id = '')
ToMigrate(row) ==
    /\ ~row.is_legacy_user
    /\ row.stripe_subscription_id = Null

\* DATE_ADD(NOW(), INTERVAL ? DAY)
DateAddDays(t, days) == t + days * 24 * 60

MarkLegacy(row) ==
    IF ToMigrate(row)
    THEN [row EXCEPT !.is_legacy_user = TRUE,
                     !.subscription_status = "trialing",
                     !.subscription_ends_at = DateAddDays(now, GRACE_PERIOD_DAYS)]
    ELSE row

\* The script is a process of its own, run by hand while the bot is down:
\* no scheduleReset or reset-all invocation is in flight, and none begins
\* once the script has been run.
BotDown ==
    /\ \A i \in Guarded : ginv[i].pc \in {"idle", "done"}
    /\ \A j \in Manual : minv[j].pc \in {"idle", "done"}

\* migrateUsers up to the confirmation prompt
MigCheck(k) ==
    /\ mig[k].pc = "idle"
    /\ BotDown
    /\ IF k = 1 THEN TRUE ELSE mig[k - 1].pc # "idle"
    /\ LET usersToMigrate == Cardinality({u \in DOMAIN db : ToMigrate(db[u])})
       IN  mig' = [mig EXCEPT ![k].sawMarker = marker,
                              ![k].pc = IF marker \/ usersToMigrate = 0
                                        THEN "done" ELSE "confirm"]
    /\ overlapped' = IF \E m \in Migrations \ {k} : mig[m].pc = "confirm"
                     THEN overlapped \cup {"migration"} ELSE overlapped
    /\ UNCHANGED <<flag, targetPassed, ginv, minv, marker, bodyRuns, passes, migRuns>>
    /\ UNCHANGED worldVars
    /\ UNCHANGED serviceVars

\* migrateUsers from the answer to the prompt: the UPDATE, then the INSERT of
\* the migration record
MigConfirm(k) ==
    /\ mig[k].pc = "confirm"
    /\ BotDown
    /\ \E confirmed \in BOOLEAN :
         IF confirmed
         THEN /\ db' = [u \in DOMAIN db |-> MarkLegacy(db[u])]
              /\ marker' = TRUE
              /\ migRuns' = migRuns + 1
              /\ mig' = [mig EXCEPT ![k].pc = "done", ![k].acted = TRUE]
         ELSE /\ mig' = [mig EXCEPT ![k].pc = "done"]
              /\ UNCHANGED <<db, marker, migRuns>>
    /\ UNCHANGED <<flag, targetPassed, ginv, minv, bodyRuns, passes, overlapped>>
    /\ UNCHANGED <<roles, inGuild, stripeSubs, now>>
    /\ UNCHANGED serviceVars

(***************************************************************************)
(* The guard's specification: users as the bot finds them when the reset   *)
(* and the migration are due.                                              *)
(***************************************************************************)
ProviderSub(u, status, ends) ==
    [discordId |-> u, status |-> status, customerId |-> CustomerOf(u),
     currentPeriodEnd |-> ends]

SubOf(u) == IF u = "u1" THEN "s1" ELSE "s2"

\* a paying subscriber, a one-time-fee member from before the subscription
\* model, a legacy member in the grace period, a newcomer without record
Archetypes == {"subscriber", "registered", "legacy", "unverified"}

ArchRow(u, a) ==
    CASE a = "subscriber" -> UserRow("active", SubOf(u), CustomerOf(u), 1, FALSE)
      [] a = "registered" -> UserRow("none", Null, Null, NullTime, FALSE)
      [] OTHER -> UserRow("trialing", Null, Null, DateAddDays(0, GRACE_PERIOD_DAYS), TRUE)

ArchRoles(u, a) ==
    CASE a = "subscriber" -> {BOSNIAN_CROATIAN_SERBIAN, BOSNIAN_CROATIAN_SERBIAN_MEMBER}
      [] a = "registered" -> {MEMBER}
      [] a = "legacy" -> {ENGLISH, ENGLISH_MEMBER}
      [] OTHER -> {UNVERIFIED}

\* u1 pays a subscription; u2 joined before the subscription model
InitialArchetypes == {[u \in Users |-> IF u = "u1" THEN "subscriber" ELSE "registered"]}

\* updateUserSubscription: COALESCE keeps the ids when none is given; no row,
\* or a failed statement, changes nothing and is reported by false only
UpdateUserSubscription(store, u, cust, sub, status, ends, ok) ==
    IF ok /\ u \in DOMAIN store
    THEN [store EXCEPT ![u].stripe_customer_id = IF cust = Null THEN @ ELSE cust,
                       ![u].stripe_subscription_id = IF sub = Null THEN @ ELSE sub,
                       ![u].subscription_status = status,
                       ![u].subscription_ends_at = ends]
    ELSE store

\* saveSubscriptionUser: INSERT ... ON DUPLICATE KEY UPDATE
SaveSubscriptionUser(store, u, cust, sub, status, ends, ok) ==
    IF ~ok THEN store
    ELSE [v \in DOMAIN store \cup {u} |->
            IF v # u THEN store[v]
            ELSE UserRow(status, sub, cust, ends,
                         IF u \in DOMAIN store THEN store[u].is_legacy_user ELSE FALSE)]

\* getLegacyUsers
IsLegacyUser(row) ==
    /\ row.is_legacy_user
    /\ row.subscription_status \in {"trialing", "none"}

(***************************************************************************)
(* The billing provider's listing.                                         *)
(***************************************************************************)
ProviderStatuses == {"active", "past_due", "canceled", "unpaid", "trialing"}

StripeSub(id) ==
    [subscriptionId |-> id, discordId |-> stripeSubs[id].discordId,
     status |-> stripeSubs[id].status,
     currentPeriodEnd |-> stripeSubs[id].currentPeriodEnd,
     customerId |-> stripeSubs[id].customerId]

\* A plausible slip: a failed listing is answered from what was listed before.
ListingIgnoresFailure(ok) ==
    LET listed == SelectSeq(SubOrder, LAMBDA id : id \in DOMAIN stripeSubs)
    IN  [k \in 1..Len(listed) |-> StripeSub(listed[k])]

\* getAllActiveSubscriptions: every subscription carrying a discord_id, of any
\* status; [] when the provider call fails
GetAllActiveSubscriptions(ok) ==
    LET listed == SelectSeq(SubOrder, LAMBDA id : id \in DOMAIN stripeSubs)
    IN  IF ok THEN [k \in 1..Len(listed) |-> StripeSub(listed[k])] ELSE <<>>

(***************************************************************************)
(* Role dispatch for a user id: nothing happens when the member is not in  *)
(* the guild.                                                              *)
(***************************************************************************)
GrantRoles(rl, u, failRole) ==
    IF inGuild[u] THEN [rl EXCEPT ![u] = AssignSubscriptionRoles(rl[u], failRole)] ELSE rl

\* A plausible slip: the roles are removed without looking whether the member
\* was found.
RevokeUnfetchedMember(rl, u, failRole) ==
    [rl EXCEPT ![u] = RemoveSubscriptionRoles(rl[u], failRole)]

RevokeRoles(rl, u, failRole) ==
    IF inGuild[u] THEN [rl EXCEPT ![u] = RemoveSubscriptionRoles(rl[u], failRole)] ELSE rl

\* the direct messages: sendSubscriptionWelcomeDM, sendSubscriptionActivatedDM
\* ("Pretplata ponovo aktivirana"), sendPaymentFailedDM, sendSubscriptionEndedDM,
\* sendLegacyExpiryDM
DMKinds == {"welcome", "activated", "payment_failed", "ended", "legacy_expiry"}

\* What one turn of a sweep did for a user: the case taken (1 no record,
\* 2 missing linkage, 3 status changed, 4 no change, 5 legacy expiry), what
\* it had read and what it invoked.
Dispatch(case, stored, linked, fetched, granted, revoked, dms, first) ==
    [case |-> case, stored |-> stored, linked |-> linked, fetched |-> fetched,
     grant |-> granted, revoke |-> revoked, dms |-> dms, firstGrant |-> first]

NoDispatch == Dispatch(0, "absent", FALSE, "none", FALSE, FALSE, {}, FALSE)

(***************************************************************************)
(* checkAllSubscriptions: one turn of "for (const stripeSub of             *)
(* stripeSubscriptions)" against the users the sweep read at its start.    *)
(***************************************************************************)
\* A plausible slip: "activated" is sent only when the payment had failed before.
NotificationsByPreviousStatus(oldStatus, newStatus) ==
    CASE newStatus = "active" -> IF oldStatus = "past_due" THEN {"activated"} ELSE {}
      [] newStatus = "past_due" -> {"payment_failed"}
      [] newStatus \in {"canceled", "unpaid"} -> {"ended"}
      [] OTHER -> {}

\* handleSubscriptionStatusChange: the messages of "switch (newStatus)"; the
\* status stored before plays no part in it
StatusChangeNotifications(oldStatus, newStatus) ==
    CASE newStatus = "active" -> {"activated"}
      [] newStatus = "past_due" -> {"payment_failed"}
      [] newStatus \in {"canceled", "unpaid"} -> {"ended"}
      [] OTHER -> {}

HandleSubscriptionStatusChange(u, dbUser, newStatus, currentPeriodEnd, dbOk, failRole) ==
    [db |-> UpdateUserSubscription(db, u, Null, Null, newStatus, currentPeriodEnd, dbOk),
     roles |-> CASE newStatus = "active" -> GrantRoles(roles, u, failRole)
                 [] newStatus \in {"canceled", "unpaid"} -> RevokeRoles(roles, u, failRole)
                 [] OTHER -> roles,
     dispatch |-> Dispatch(3, dbUser.subscription_status, TRUE, newStatus,
                           newStatus = "active", newStatus \in {"canceled", "unpaid"},
                           StatusChangeNotifications(dbUser.subscription_status, newStatus),
                           ~everGranted[u])]

\* A plausible slip: the record is saved and the roles are left to a later sweep.
SyncSavesOnly(stripeSub, userFound, dbOk, failRole) ==
    [db |-> IF userFound
            THEN SaveSubscriptionUser(db, stripeSub.discordId, stripeSub.customerId,
                                      stripeSub.subscriptionId, stripeSub.status,
                                      stripeSub.currentPeriodEnd, dbOk)
            ELSE db,
     roles |-> roles,
     dispatch |-> Dispatch(1, "absent", FALSE, stripeSub.status, FALSE, FALSE, {}, FALSE)]

\* syncStripeSubscriber: nothing at all when the Discord user cannot be fetched
SyncStripeSubscriber(stripeSub, userFound, dbOk, failRole) ==
    LET u == stripeSub.discordId
        isActive == stripeSub.status = "active"
    IN  IF ~userFound
        THEN [db |-> db, roles |-> roles,
              dispatch |-> Dispatch(1, "absent", FALSE, stripeSub.status, FALSE, FALSE, {}, FALSE)]
        ELSE [db |-> SaveSubscriptionUser(db, u, stripeSub.customerId, stripeSub.subscriptionId,
                                          stripeSub.status, stripeSub.currentPeriodEnd, dbOk),
              roles |-> IF isActive THEN GrantRoles(roles, u, failRole) ELSE roles,
              dispatch |-> Dispatch(1, "absent", FALSE, stripeSub.status, isActive, FALSE,
                                    IF isActive THEN {"welcome"} ELSE {}, ~everGranted[u])]

\* "User exists but missing Stripe info - updating"
BackfillLinkage(stripeSub, dbUser, dbOk, failRole) ==
    LET u == stripeSub.discordId
        isActive == stripeSub.status = "active"
    IN  [db |-> UpdateUserSubscription(db, u, stripeSub.customerId, stripeSub.subscriptionId,
                                       stripeSub.status, stripeSub.currentPeriodEnd, dbOk),
         roles |-> IF isActive THEN GrantRoles(roles, u, failRole) ELSE roles,
         dispatch |-> Dispatch(2, dbUser.subscription_status, FALSE, stripeSub.status,
                               isActive, FALSE, {}, ~everGranted[u])]

\* the body of the loop
ReconcileSubscription(stripeSub, dbUserMap, userFound, dbOk, failRole) ==
    LET u == stripeSub.discordId
    IN  IF u \notin DOMAIN dbUserMap
        THEN SyncStripeSubscriber(stripeSub, userFound, dbOk, failRole)
        ELSE IF dbUserMap[u].stripe_subscription_id = Null
        THEN BackfillLinkage(stripeSub, dbUserMap[u], dbOk, failRole)
        ELSE IF dbUserMap[u].subscription_status # stripeSub.status
        THEN HandleSubscriptionStatusChange(u, dbUserMap[u], stripeSub.status,
                                            stripeSub.currentPeriodEnd, dbOk, failRole)
        ELSE [db |-> db, roles |-> roles,
              dispatch |-> Dispatch(4, dbUserMap[u].subscription_status, TRUE,
                                    stripeSub.status, FALSE, FALSE, {}, FALSE)]

(***************************************************************************)
(* The slow timer and checkAllSubscriptions.  The clock counts minutes.    *)
(***************************************************************************)
normalInterval == 60

MaxStarts == 2

MaxTime == 60

NoRows == [u \in {} |-> Null]

IdleSweep ==
    [pc |-> "idle", stripeSubscriptions |-> <<>>, dbUserMap |-> NoRows,
     legacyUsers |-> <<>>, now |-> 0, failed |-> {}, fetchFailed |-> FALSE]

\* the invocation record a new call takes: the first one not in use
FreeSweep(s) ==
    /\ slow[s].pc = "idle"
    /\ \A t \in SlowSweeps : t < s => slow[t].pc # "idle"

\* checkAllSubscriptions up to "await stripeService.getAllActiveSubscriptions()"
CheckAllSubscriptionsCalled(s) ==
    /\ FreeSweep(s)
    /\ slow' = [slow EXCEPT ![s].pc = "fetch_stripe"]

\* A plausible slip: the guard of startPolling is missing.
PollingNeverRunning == FALSE

\* startPolling: "if (normalPollingInterval)"
PollingAlreadyRunning == normalPollingInterval

StartPolling ==
    /\ startCalls < MaxStarts
    /\ startCalls' = startCalls + 1
    /\ IF PollingAlreadyRunning
       THEN UNCHANGED <<normalPollingInterval, normalDue, slow, liveNormalTimers>>
       ELSE /\ \E s \in SlowSweeps : CheckAllSubscriptionsCalled(s)
            /\ normalPollingInterval' = TRUE
            /\ normalDue' = now + normalInterval
            /\ liveNormalTimers' = liveNormalTimers + 1
    /\ UNCHANGED <<lastItem, everGranted>>
    /\ UNCHANGED <<worldVars, sweepFrame>>

\* A plausible slip: stopPolling clears the timers and forgets the tracker.
CheckoutsKept == pendingCheckouts

\* "pendingCheckouts.clear()"
CheckoutsCleared == <<>>

\* stopPolling
StopPolling ==
    /\ startCalls > 0
    /\ startCalls' = 0
    /\ IF normalPollingInterval
       THEN /\ normalPollingInterval' = FALSE
            /\ liveNormalTimers' = liveNormalTimers - 1
       ELSE UNCHANGED <<normalPollingInterval, liveNormalTimers>>
    /\ IF fastPollingInterval
       THEN /\ fastPollingInterval' = FALSE
            /\ liveFastTimers' = liveFastTimers - 1
       ELSE UNCHANGED <<fastPollingInterval, liveFastTimers>>
    /\ pendingCheckouts' = CheckoutsCleared
    /\ fast' = [f \in FastSweeps |-> [fast[f] EXCEPT !.seen = {}]]
    /\ UNCHANGED <<normalDue, slow, lastItem, everGranted>>
    /\ UNCHANGED <<fastDue, sessions, click, lastRemoval>>
    /\ UNCHANGED <<worldVars, resetVars, roleCalls>>

\* the setInterval callback of startPolling; it runs no earlier than due
NormalTimerFire ==
    /\ normalPollingInterval
    /\ now >= normalDue
    /\ \E s \in SlowSweeps : CheckAllSubscriptionsCalled(s)
    /\ normalDue' = now + normalInterval
    /\ UNCHANGED <<normalPollingInterval, liveNormalTimers, startCalls, lastItem, everGranted>>
    /\ UNCHANGED <<worldVars, sweepFrame>>

\* time passes until the slow timer is next due
AdvanceClock ==
    /\ now' = IF normalPollingInterval /\ now < normalDue
              THEN normalDue ELSE now + normalInterval
    /\ now' <= MaxTime
    /\ UNCHANGED <<db, roles, inGuild, stripeSubs>>
    /\ UNCHANGED <<serviceVars, resetVars>>

\* "const stripeSubscriptions = await stripeService.getAllActiveSubscriptions()"
SweepFetchSubscriptions(s) ==
    /\ slow[s].pc = "fetch_stripe"
    /\ \E ok \in BOOLEAN :
         slow' = [slow EXCEPT ![s].stripeSubscriptions = GetAllActiveSubscriptions(ok),
                              ![s].fetchFailed = ~ok,
                              ![s].pc = "fetch_users"]
    /\ UNCHANGED <<normalPollingInterval, normalDue, liveNormalTimers, startCalls,
                   lastItem, everGranted>>
    /\ UNCHANGED <<worldVars, sweepFrame>>

\* "const dbUsers = await database.fetchAllUsers()" and dbUserMap
SweepFetchUsers(s) ==
    /\ slow[s].pc = "fetch_users"
    /\ \E ok \in BOOLEAN :
         slow' = [slow EXCEPT ![s].dbUserMap = IF ok THEN db ELSE NoRows,
                              ![s].pc = IF slow[s].stripeSubscriptions = <<>>
                                        THEN "legacy_fetch" ELSE "loop"]
    /\ UNCHANGED <<normalPollingInterval, normalDue, liveNormalTimers, startCalls,
                   lastItem, everGranted>>
    /\ UNCHANGED <<worldVars, sweepFrame>>

\* A plausible slip: a refused write or a rejected role call leaves the loop body
\* as an exception.
TurnRejectsOnFailure(failed) == failed

\* Whether a turn of a sweep's loop ends in the outer catch: the database
\* functions return false, the role and DM functions log, syncStripeSubscriber
\* and handleSubscriptionStatusChange catch, so no call of the body rejects.
TurnRejects(failed) == FALSE

\* What a turn leaves of the invocation: the rest of the list, or the end of
\* the call through the outer catch.  "failed" is history: the users whose turn
\* did not have the outcome of a turn without failures.
AfterTurn(inv, u, failed, next) ==
    IF TurnRejects(failed) THEN IdleSweep
    ELSE [next EXCEPT !.failed = IF failed THEN inv.failed \cup {u} ELSE inv.failed]

\* one turn of "for (const stripeSub of stripeSubscriptions)"
SweepItem(s) ==
    /\ slow[s].pc = "loop"
    /\ LET stripeSub == Head(slow[s].stripeSubscriptions)
           u == stripeSub.discordId
           rest == Tail(slow[s].stripeSubscriptions)
       IN  \E userFound \in BOOLEAN, dbOk \in BOOLEAN, failRole \in FailChoices :
             LET out == ReconcileSubscription(stripeSub, slow[s].dbUserMap,
                                              userFound, dbOk, failRole)
                 clean == ReconcileSubscription(stripeSub, slow[s].dbUserMap,
                                                userFound, TRUE, NoFail)
                 failed == out.db # clean.db \/ out.roles # clean.roles
             IN  /\ db' = out.db
                 /\ roles' = out.roles
                 /\ lastItem' = [lastItem EXCEPT ![u] = out.dispatch]
                 /\ everGranted' = [everGranted EXCEPT ![u] = @ \/ out.dispatch.grant]
                 /\ slow' = [slow EXCEPT ![s] = AfterTurn(@, u, failed,
                                   [@ EXCEPT !.stripeSubscriptions = rest,
                                             !.pc = IF rest = <<>> THEN "legacy_fetch"
                                                    ELSE "loop"])]
    /\ UNCHANGED <<normalPollingInterval, normalDue, liveNormalTimers, startCalls>>
    /\ UNCHANGED <<inGuild, stripeSubs, now>>
    /\ UNCHANGED sweepFrame

\* The status-change turn in its two steps.  handleSubscriptionStatusChange up
\* to "switch (newStatus)": the awaited updateUserSubscription.  "failed" is
\* history: the write left the record other than an accepted write does.
ChangeWrite(s) ==
    /\ slow[s].pc = "loop"
    /\ LET stripeSub == Head(slow[s].stripeSubscriptions)
           u == stripeSub.discordId
       IN  /\ u \in DOMAIN slow[s].dbUserMap
           /\ slow[s].dbUserMap[u].stripe_subscription_id # Null
           /\ slow[s].dbUserMap[u].subscription_status # stripeSub.status
           /\ \E dbOk \in BOOLEAN :
                LET out == HandleSubscriptionStatusChange(u, slow[s].dbUserMap[u],
                               stripeSub.status, stripeSub.currentPeriodEnd, dbOk, NoFail)
                    clean == HandleSubscriptionStatusChange(u, slow[s].dbUserMap[u],
                               stripeSub.status, stripeSub.currentPeriodEnd, TRUE, NoFail)
                IN  /\ db' = out.db
                    /\ slow' = [slow EXCEPT ![s].pc = "dispatch",
                                            ![s].failed = IF out.db # clean.db
                                                          THEN @ \cup {u} ELSE @]
    /\ UNCHANGED <<normalPollingInterval, normalDue, liveNormalTimers, startCalls,
                   lastItem, everGranted>>
    /\ UNCHANGED <<roles, inGuild, stripeSubs, now>>
    /\ UNCHANGED sweepFrame

\* handleSubscriptionStatusChange from "switch (newStatus)": the role call and
\* the message of the new status, then the next subscription of the list
ChangeDispatch(s) ==
    /\ slow[s].pc = "dispatch"
    /\ LET stripeSub == Head(slow[s].stripeSubscriptions)
           u == stripeSub.discordId
           rest == Tail(slow[s].stripeSubscriptions)
       IN  \E failRole \in FailChoices :
             LET out == HandleSubscriptionStatusChange(u, slow[s].dbUserMap[u],
                            stripeSub.status, stripeSub.currentPeriodEnd, TRUE, failRole)
             IN  /\ roles' = out.roles
                 /\ lastItem' = [lastItem EXCEPT ![u] = out.dispatch]
                 /\ everGranted' = [everGranted EXCEPT ![u] = @ \/ out.dispatch.grant]
                 /\ slow' = [slow EXCEPT ![s].stripeSubscriptions = rest,
                                         ![s].pc = IF rest = <<>> THEN "legacy_fetch"
                                                   ELSE "loop"]
    /\ UNCHANGED <<normalPollingInterval, normalDue, liveNormalTimers, startCalls>>
    /\ UNCHANGED <<db, inGuild, stripeSubs, now>>
    /\ UNCHANGED sweepFrame

\* a member leaves the guild: from now on "guild.members.fetch(discordId)"
\* rejects and the role functions find no member
LeaveGuild(u) ==
    /\ inGuild[u]
    /\ inGuild' = [inGuild EXCEPT ![u] = FALSE]
    /\ UNCHANGED <<db, roles, stripeSubs, now>>
    /\ UNCHANGED <<serviceVars, resetVars>>

\* getLegacyUsers: ORDER BY subscription_ends_at ASC
GetLegacyUsers(ok) ==
    LET legacy == SelectSeq(UserOrder, LAMBDA u : u \in DOMAIN db /\ IsLegacyUser(db[u]))
        rows == [k \in 1..Len(legacy) |->
                   [discord_id |-> legacy[k],
                    subscription_ends_at |-> db[legacy[k]].subscription_ends_at]]
    IN  IF ok
        THEN SortSeq(rows, LAMBDA a, b : a.subscription_ends_at < b.subscription_ends_at)
        ELSE <<>>

\* checkLegacyUserExpiry up to the loop: getLegacyUsers, "const now = new Date()"
SweepFetchLegacy(s) ==
    /\ slow[s].pc = "legacy_fetch"
    /\ \E ok \in BOOLEAN :
         LET legacyUsers == GetLegacyUsers(ok)
         IN  slow' = [slow EXCEPT ![s].legacyUsers = legacyUsers,
                                  ![s].now = now,
                                  ![s].dbUserMap = NoRows,
                                  ![s].pc = IF legacyUsers = <<>> THEN "idle"
                                            ELSE "legacy_loop"]
    /\ UNCHANGED <<normalPollingInterval, normalDue, liveNormalTimers, startCalls,
                   lastItem, everGranted>>
    /\ UNCHANGED <<worldVars, sweepFrame>>

\* A plausible slip: the end date is tested for presence only.
GracePeriodIgnored(user, at) == user.subscription_ends_at # NullTime

\* "user.subscription_ends_at && new Date(user.subscription_ends_at) <= now"
GracePeriodExpired(user, at) ==
    /\ user.subscription_ends_at # NullTime
    /\ user.subscription_ends_at <= at

\* one turn of "for (const user of legacyUsers)"; the sweep returns after the last
SweepLegacyItem(s) ==
    /\ slow[s].pc = "legacy_loop"
    /\ LET user == Head(slow[s].legacyUsers)
           u == user.discord_id
           rest == Tail(slow[s].legacyUsers)
           next == IF rest = <<>> THEN IdleSweep
                   ELSE [slow[s] EXCEPT !.legacyUsers = rest]
       IN  IF GracePeriodExpired(user, slow[s].now)
           THEN \E dbOk \in BOOLEAN, failRole \in FailChoices :
                  /\ db' = UpdateUserSubscription(db, u, Null, Null, "canceled",
                                                  slow[s].now, dbOk)
                  /\ roles' = RevokeRoles(roles, u, failRole)
                  /\ lastItem' = [lastItem EXCEPT ![u] =
                         Dispatch(5, "trialing", FALSE, "none", FALSE, TRUE,
                                  {"legacy_expiry"}, FALSE)]
                  /\ slow' = [slow EXCEPT ![s] = AfterTurn(@, u,
                                \/ db' # UpdateUserSubscription(db, u, Null, Null, "canceled",
                                                                slow[s].now, TRUE)
                                \/ roles' # RevokeRoles(roles, u, NoFail),
                                next)]
           ELSE /\ slow' = [slow EXCEPT ![s] = next]
                /\ UNCHANGED <<db, roles, lastItem>>
    /\ UNCHANGED <<normalPollingInterval, normalDue, liveNormalTimers, startCalls, everGranted>>
    /\ UNCHANGED <<inGuild, stripeSubs, now>>
    /\ UNCHANGED sweepFrame

(***************************************************************************)
(* The pending-checkout tracker, checkPendingCheckouts and the fast timer. *)
(* An entry of the Map carries its key; "missed" is history: a sweep that  *)
(* started after the entry's expiry has ended and left it.                 *)
(***************************************************************************)
fastInterval == 1

fastDuration == 20

MaxFastTime == 22

MaxClickTime == 0

MaxLate == 1

MaxLatency == 1

NoSession ==
    [success |-> FALSE, paid |-> FALSE, discordId |-> Null, customerId |-> Null,
     subscriptionId |-> Null, subscriptionStatus |-> "none", currentPeriodEnd |-> NullTime]

IdleFast ==
    [pc |-> "idle", now |-> 0, seen |-> {}, expiredUsers |-> {}, processed |-> {},
     current |-> Null, sessionId |-> 0, sessionResult |-> NoSession]

IdleClick == [pc |-> "idle", discordId |-> Null, at |-> 0, reply |-> "none"]

\* the handler has answered with interaction.editReply and returned; as
\* history the slot keeps a wait answer, and whom it went to, until it is
\* taken again
Replied(discordId, reply) ==
    IF reply = "wait"
    THEN [IdleClick EXCEPT !.discordId = discordId, !.reply = reply]
    ELSE IdleClick

NoRemoval == [why |-> "none", paid |-> FALSE, expired |-> FALSE]

\* A plausible slip: the tracker is never found to hold the user.
HasPendingCheckoutNever(map, discordId) == FALSE

\* pendingCheckouts.has(discordId)
HasPendingCheckout(map, discordId) ==
    \E i \in 1..Len(map) : map[i].discordId = discordId

\* pendingCheckouts.set: a key already present keeps its place in the order
MapSet(map, entry) ==
    IF HasPendingCheckout(map, entry.discordId)
    THEN [i \in 1..Len(map) |->
            IF map[i].discordId = entry.discordId THEN entry ELSE map[i]]
    ELSE Append(map, entry)

\* A plausible slip: stopFastPolling forgets the timer.
StopFastPollingKeepsTimer(state, discordId) ==
    [map |-> SelectSeq(state.map, LAMBDA e : e.discordId # discordId),
     timer |-> state.timer]

\* A plausible slip: stopFastPolling clears the timer without looking at the
\* size of the Map.
StopFastPollingClearsTimer(state, discordId) ==
    [map |-> SelectSeq(state.map, LAMBDA e : e.discordId # discordId),
     timer |-> FALSE]

\* stopFastPolling(discordId) on the Map and the handle of the fast timer
StopFastPolling(state, discordId) ==
    LET left == SelectSeq(state.map, LAMBDA e : e.discordId # discordId)
    IN  [map |-> left, timer |-> state.timer /\ ~(left = <<>>)]

\* "for (const discordId of expiredUsers) stopFastPolling(discordId)"
RECURSIVE CleanUp(_, _)
CleanUp(state, expiredUsers) ==
    IF expiredUsers = {} THEN state
    ELSE LET discordId == CHOOSE u \in expiredUsers : TRUE
         IN  CleanUp(StopFastPolling(state, discordId), expiredUsers \ {discordId})

\* "now - createdAt > stripeConfig.polling.fastDuration"
FastPollingExpired(entry, at) == at - entry.createdAt > fastDuration

\* The loop over pendingCheckouts.entries() from where the iterator stands, up
\* to the next "await stripeService.getCheckoutSession(sessionId)" or the end.
\* The iterator of a Map follows the live Map: it yields the first entry it
\* has not passed, so an entry deleted and set again is yielded again.
RECURSIVE CheckFrom(_, _, _, _)
CheckFrom(map, seen, expiredUsers, at) ==
    LET rest == SelectSeq(map, LAMBDA e : e.discordId \notin seen)
    IN  IF rest = <<>>
        THEN [pc |-> "done", seen |-> seen, expiredUsers |-> expiredUsers,
              current |-> Null, sessionId |-> 0]
        ELSE IF FastPollingExpired(Head(rest), at)
        THEN CheckFrom(map, seen \cup {Head(rest).discordId},
                       expiredUsers \cup {Head(rest).discordId}, at)
        ELSE [pc |-> "session", seen |-> seen \cup {Head(rest).discordId},
              expiredUsers |-> expiredUsers,
              current |-> Head(rest).discordId, sessionId |-> Head(rest).sessionId]

\* what stopFastPolling deleted for u, as the properties read it
RemovalOf(map, u, sweep) ==
    LET e == map[CHOOSE i \in 1..Len(map) : map[i].discordId = u]
    IN  [why |-> IF u \in sweep.processed THEN "paid" ELSE "expired",
         paid |-> sessions[e.sessionId].paid,
         expired |-> FastPollingExpired(e, now)]

\* checkPendingCheckouts, invocation f, resumed with the Map and the timer as
\* they are: the synchronous run to the next await, or to the end of the
\* function with its cleanup.  Yields the new value of fast, of the Map, of the
\* timer handle and of lastRemoval.
CheckPendingCheckouts(f, sweep, map, timer) ==
    LET r == CheckFrom(map, sweep.seen, sweep.expiredUsers, sweep.now)
        after == CleanUp([map |-> map, timer |-> timer], r.expiredUsers)
    IN  IF r.pc = "session"
        THEN [fast |-> [fast EXCEPT ![f] =
                          [sweep EXCEPT !.pc = "session", !.seen = r.seen,
                                        !.expiredUsers = r.expiredUsers,
                                        !.current = r.current, !.sessionId = r.sessionId]],
              map |-> map, timer |-> timer, lastRemoval |-> lastRemoval]
        ELSE [fast |-> [g \in FastSweeps |->
                          IF g = f THEN IdleFast
                          ELSE [fast[g] EXCEPT !.seen = @ \ r.expiredUsers]],
              map |-> [i \in 1..Len(after.map) |->
                         [after.map[i] EXCEPT !.missed =
                             @ \/ FastPollingExpired(after.map[i], sweep.now)]],
              timer |-> after.timer,
              lastRemoval |-> [u \in Users |->
                                 IF u \in r.expiredUsers /\ HasPendingCheckout(map, u)
                                 THEN RemovalOf(map, u, sweep) ELSE lastRemoval[u]]]

\* the invocation record a new call takes: the first one not in use
FreeFast(f) ==
    /\ fast[f].pc = "idle"
    /\ \A g \in FastSweeps : g < f => fast[g].pc # "idle"

\* the effect of a run of checkPendingCheckouts on the tracker and the timer
FastEffect(r) ==
    /\ fast' = r.fast
    /\ pendingCheckouts' = r.map
    /\ fastPollingInterval' = r.timer
    /\ liveFastTimers' = IF fastPollingInterval /\ ~r.timer
                         THEN liveFastTimers - 1 ELSE liveFastTimers
    /\ lastRemoval' = r.lastRemoval

\* triggerFastPolling(discordId, sessionId); startFastPolling runs
\* checkPendingCheckouts to its first await before it sets the timer
TriggerFastPolling(discordId, sessionId) ==
    LET map == MapSet(pendingCheckouts,
                      [discordId |-> discordId, sessionId |-> sessionId,
                       createdAt |-> now, missed |-> FALSE])
    IN  IF fastPollingInterval
        THEN /\ pendingCheckouts' = map
             /\ UNCHANGED <<fastPollingInterval, fastDue, fast, liveFastTimers, lastRemoval>>
        ELSE \E f \in FastSweeps :
               /\ FreeFast(f)
               /\ LET r == CheckPendingCheckouts(f, [IdleFast EXCEPT !.now = now], map, FALSE)
                  IN  /\ fast' = r.fast
                      /\ pendingCheckouts' = r.map
                      /\ lastRemoval' = r.lastRemoval
               /\ fastPollingInterval' = TRUE
               /\ fastDue' = now + fastInterval
               /\ liveFastTimers' = liveFastTimers + 1

\* handleSubscribeButton up to "await stripeService.createCheckoutSession"
ClickCheck(c, u) ==
    /\ click[c].pc = "idle"
    /\ \A d \in Clicks : d < c => click[d].pc # "idle"
    /\ now <= MaxClickTime
    /\ Len(sessions) + Cardinality({d \in Clicks : click[d].pc = "creating"}) < MaxSessions
    /\ \E ok \in BOOLEAN :
         \* getUserByDiscordId answers null when the query fails
         LET existingUser == ok /\ u \in DOMAIN db
         IN  IF /\ existingUser
                /\ db[u].subscription_status \in {"active", "trialing"}
                /\ ~(db[u].is_legacy_user /\ db[u].subscription_status = "trialing")
             THEN /\ \E failRole \in FailChoices : roles' = GrantRoles(roles, u, failRole)
                  /\ everGranted' = [everGranted EXCEPT ![u] = TRUE]
                  /\ click' = [click EXCEPT ![c] = Replied(u, "already_active")]
             ELSE /\ click' = [click EXCEPT ![c] =
                       IF HasPendingCheckout(pendingCheckouts, u)
                       THEN Replied(u, "wait")
                       ELSE [pc |-> "creating", discordId |-> u, at |-> now,
                             reply |-> "none"]]
                  /\ UNCHANGED <<roles, everGranted>>
    /\ UNCHANGED <<pendingCheckouts, fastPollingInterval, fastDue, sessions, fast,
                   liveFastTimers, lastRemoval>>
    /\ UNCHANGED <<normalPollingInterval, normalDue, slow, liveNormalTimers, startCalls,
                   lastItem, roleCalls>>
    /\ UNCHANGED <<db, inGuild, stripeSubs, now>>
    /\ UNCHANGED resetVars

\* handleSubscribeButton from the answer of createCheckoutSession on
ClickRegister(c) ==
    /\ click[c].pc = "creating"
    /\ \E ok \in BOOLEAN :
         IF ok
         THEN /\ sessions' = Append(sessions,
                     [discordId |-> click[c].discordId, paid |-> FALSE,
                      inWindow |-> FALSE, trackedAt |-> now, processed |-> "no"])
              /\ TriggerFastPolling(click[c].discordId, Len(sessions) + 1)
              /\ click' = [click EXCEPT ![c] = Replied(click[c].discordId, "checkout")]
         ELSE /\ click' = [click EXCEPT ![c] = Replied(click[c].discordId, "error")]
              /\ UNCHANGED <<pendingCheckouts, fastPollingInterval, fastDue, sessions,
                             fast, liveFastTimers, lastRemoval>>
    /\ UNCHANGED <<normalPollingInterval, normalDue, slow, liveNormalTimers, startCalls,
                   lastItem, everGranted, roleCalls>>
    /\ UNCHANGED <<worldVars, resetVars>>

\* the member pays on the page of checkout session i
PaySession(i) ==
    /\ i \in 1..Len(sessions)
    /\ ~sessions[i].paid
    /\ sessions' = [sessions EXCEPT
           ![i].paid = TRUE,
           ![i].inWindow = /\ \E k \in 1..Len(pendingCheckouts) :
                                 pendingCheckouts[k].sessionId = i
                           /\ now - sessions[i].trackedAt < fastDuration]
    /\ LET u == sessions[i].discordId
       IN  stripeSubs' = [id \in DOMAIN stripeSubs \cup {SubOf(u)} |->
                            IF id = SubOf(u) THEN ProviderSub(u, "active", 1)
                            ELSE stripeSubs[id]]
    /\ UNCHANGED <<pendingCheckouts, fastPollingInterval, fastDue, fast, click,
                   liveFastTimers, lastRemoval>>
    /\ UNCHANGED <<normalPollingInterval, normalDue, slow, liveNormalTimers, startCalls,
                   lastItem, everGranted, roleCalls>>
    /\ UNCHANGED <<db, roles, inGuild, now>>
    /\ UNCHANGED resetVars

\* the setInterval callback of startFastPolling; it runs no earlier than due
FastTimerFire ==
    /\ fastPollingInterval
    /\ now >= fastDue
    /\ \E f \in FastSweeps :
         /\ FreeFast(f)
         /\ FastEffect(CheckPendingCheckouts(f, [IdleFast EXCEPT !.now = now],
                                             pendingCheckouts, TRUE))
    /\ fastDue' = now + fastInterval
    /\ UNCHANGED <<sessions, click>>
    /\ UNCHANGED <<normalPollingInterval, normalDue, slow, liveNormalTimers, startCalls,
                   lastItem, everGranted, roleCalls>>
    /\ UNCHANGED <<worldVars, resetVars>>

\* stripeService.getCheckoutSession(sessionId)
GetCheckoutSession(i, ok) ==
    IF ok /\ sessions[i].paid
    THEN LET id == SubOf(sessions[i].discordId)
         IN  [success |-> TRUE, paid |-> TRUE, discordId |-> sessions[i].discordId,
              customerId |-> stripeSubs[id].customerId, subscriptionId |-> id,
              subscriptionStatus |-> stripeSubs[id].status,
              currentPeriodEnd |-> stripeSubs[id].currentPeriodEnd]
    ELSE [NoSession EXCEPT !.success = ok]

\* A plausible slip: the member whose payment was processed is not queued
\* for removal.
PushNothing(expiredUsers, discordId) == expiredUsers

\* "expiredUsers.push(discordId)" after processNewSubscription
PushProcessed(expiredUsers, discordId) == expiredUsers \cup {discordId}

\* processNewSubscription(sessionData)
ProcessNewSubscription(sessionData, dbOk, failRole) ==
    LET u == sessionData.discordId
    IN  [db |-> IF u \in DOMAIN db
                THEN UpdateUserSubscription(db, u, sessionData.customerId,
                         sessionData.subscriptionId, sessionData.subscriptionStatus,
                         sessionData.currentPeriodEnd, dbOk)
                ELSE SaveSubscriptionUser(db, u, sessionData.customerId,
                         sessionData.subscriptionId, sessionData.subscriptionStatus,
                         sessionData.currentPeriodEnd, dbOk),
         roles |-> GrantRoles(roles, u, failRole),
         dispatch |-> Dispatch(6, IF u \in DOMAIN db THEN db[u].subscription_status
                                  ELSE "absent",
                               u \in DOMAIN db /\ db[u].stripe_subscription_id # Null,
                               sessionData.subscriptionStatus,
                               TRUE, FALSE, {"welcome"}, ~everGranted[u])]

\* the answer of "await stripeService.getCheckoutSession(sessionId)"; the
\* session remembers a call that failed after the member had paid
FastSessionResult(f) ==
    /\ fast[f].pc = "session"
    /\ \E ok \in BOOLEAN :
         LET i == fast[f].sessionId
             sessionResult == GetCheckoutSession(i, ok)
         IN  /\ IF sessionResult.success /\ sessionResult.paid
                THEN /\ fast' = [fast EXCEPT ![f].pc = "process",
                                             ![f].sessionResult = sessionResult]
                     /\ UNCHANGED <<pendingCheckouts, fastPollingInterval, liveFastTimers,
                                    lastRemoval>>
                ELSE FastEffect(CheckPendingCheckouts(f, fast[f], pendingCheckouts,
                                                      fastPollingInterval))
             /\ sessions' = [sessions EXCEPT ![i].processed =
                                IF ~ok /\ sessions[i].paid /\ @ = "no"
                                THEN "unreported" ELSE @]
    /\ UNCHANGED <<fastDue, click>>
    /\ UNCHANGED <<normalPollingInterval, normalDue, slow, liveNormalTimers, startCalls,
                   lastItem, everGranted, roleCalls>>
    /\ UNCHANGED <<worldVars, resetVars>>

\* "await processNewSubscription(sessionResult); expiredUsers.push(discordId)"
FastProcess(f) ==
    /\ fast[f].pc = "process"
    /\ \E dbOk \in BOOLEAN, failRole \in FailChoices :
         LET u == fast[f].current
             p == ProcessNewSubscription(fast[f].sessionResult, dbOk, failRole)
         IN  /\ db' = p.db
             /\ roles' = p.roles
             /\ lastItem' = [lastItem EXCEPT ![u] = p.dispatch]
             /\ everGranted' = [everGranted EXCEPT ![u] = @ \/ p.dispatch.grant]
             /\ sessions' = [sessions EXCEPT ![fast[f].sessionId].processed =
                                IF dbOk THEN "written" ELSE "refused"]
             /\ FastEffect(CheckPendingCheckouts(f,
                    [fast[f] EXCEPT !.expiredUsers = PushProcessed(@, u),
                                    !.processed = @ \cup {u},
                                    !.sessionResult = NoSession],
                    pendingCheckouts, fastPollingInterval))
    /\ UNCHANGED <<fastDue, click>>
    /\ UNCHANGED <<normalPollingInterval, normalDue, slow, liveNormalTimers, startCalls,
                   roleCalls>>
    /\ UNCHANGED <<inGuild, stripeSubs, now>>
    /\ UNCHANGED resetVars

\* a sweep or a subscribe request is suspended at a call
Busy ==
    \/ \E f \in FastSweeps : fast[f].pc # "idle"
    \/ \E c \in Clicks : click[c].pc # "idle"

\* when the oldest tracked entry was registered
OldestCreatedAt ==
    LET oldest == CHOOSE i \in 1..Len(pendingCheckouts) :
                     \A j \in 1..Len(pendingCheckouts) :
                        pendingCheckouts[i].createdAt <= pendingCheckouts[j].createdAt
    IN  pendingCheckouts[oldest].createdAt

\* the minutes in which members subscribe, and those from two intervals before
\* the oldest tracked entry reaches fastDuration
Edge ==
    \/ now <= MaxClickTime
    \/ /\ pendingCheckouts # <<>>
       /\ now + 2 * fastInterval >= OldestCreatedAt + fastDuration

\* Nothing is running and every tracked session is unpaid: until a member
\* pays, each callback of the fast timer reads unpaid sessions and leaves the
\* tracker, the store and the roles as they are.
Quiet ==
    /\ pendingCheckouts # <<>>
    /\ \A i \in 1..Len(pendingCheckouts) : ~sessions[pendingCheckouts[i].sessionId].paid
    /\ ~Busy
    /\ fastPollingInterval /\ now < fastDue

\* the minutes to the next one observed: one, or, when Quiet between the
\* edges, those up to the later edge
Minutes ==
    IF Quiet /\ ~Edge
    THEN OldestCreatedAt + fastDuration - 2 * fastInterval - now
    ELSE fastInterval

\* Time passes while something is pending.  A due callback and a pending
\* call are late by at most MaxLate and MaxLatency minutes, and calls outlast
\* the minute only at the edges; the callbacks of the minutes passed over have
\* run on time.
Tick ==
    /\ now < MaxFastTime
    /\ pendingCheckouts # <<>> \/ Busy \/ now < MaxClickTime
    /\ Busy => Edge
    /\ fastPollingInterval => now < fastDue + MaxLate
    /\ \A f \in FastSweeps : fast[f].pc # "idle" => now - fast[f].now < MaxLatency
    /\ \A c \in Clicks : click[c].pc = "creating" => now - click[c].at < MaxLatency
    /\ now' = now + Minutes
    /\ fastDue' = fastDue + (Minutes - fastInterval)
    /\ UNCHANGED <<pendingCheckouts, fastPollingInterval, sessions, fast, click,
                   liveFastTimers, lastRemoval>>
    /\ UNCHANGED <<normalPollingInterval, normalDue, slow, liveNormalTimers, startCalls,
                   lastItem, everGranted, roleCalls>>
    /\ UNCHANGED <<db, roles, inGuild, stripeSubs>>
    /\ UNCHANGED resetVars

(***************************************************************************)
(* Direct calls of the two role operations, and the language selection of  *)
(* the onboarding (handleLanguageSelection of src/index.js).               *)
(***************************************************************************)
\* whether a member.roles call of assignSubscriptionRoles rejects
AssignThrows(rs, failRole) ==
    \/ UNVERIFIED \in rs /\ failRole = UNVERIFIED
    \/ ResolveMemberRole(rs) \notin rs /\ failRole = ResolveMemberRole(rs)

NoCalls == [op |-> "none", n |-> 0, once |-> {}]

\* the run of completed calls of op on a member after one more call
CallRun(run, op, completed, after) ==
    IF ~completed THEN NoCalls
    ELSE IF run.op = op THEN [run EXCEPT !.n = 2]
    ELSE [op |-> op, n |-> 1, once |-> after]

\* assignSubscriptionRoles(discordId)
AssignCall(u) ==
    /\ \E failRole \in FailChoices :
         /\ roles' = GrantRoles(roles, u, failRole)
         /\ roleCalls' = [roleCalls EXCEPT ![u] =
                CallRun(@, "grant", ~(inGuild[u] /\ AssignThrows(roles[u], failRole)),
                        roles'[u])]
    /\ everGranted' = [everGranted EXCEPT ![u] = TRUE]
    /\ UNCHANGED <<normalPollingInterval, normalDue, slow, liveNormalTimers, startCalls, lastItem>>
    /\ UNCHANGED <<db, inGuild, stripeSubs, now>>
    /\ UNCHANGED <<resetVars, fastVars>>

\* removeSubscriptionRoles(discordId)
RemoveCall(u) ==
    /\ \E failRole \in FailChoices :
         /\ roles' = RevokeRoles(roles, u, failRole)
         /\ roleCalls' = [roleCalls EXCEPT ![u] =
                CallRun(@, "revoke",
                        ~(inGuild[u] /\ RemoveMemberRolesFrom(roles[u], 1, failRole).thrown),
                        roles'[u])]
    /\ UNCHANGED <<normalPollingInterval, normalDue, slow, liveNormalTimers, startCalls,
                   lastItem, everGranted>>
    /\ UNCHANGED <<db, inGuild, stripeSubs, now>>
    /\ UNCHANGED <<resetVars, fastVars>>

\* handleLanguageSelection: the other language role is removed, the chosen one added
HandleLanguageSelection(u) ==
    /\ inGuild[u]
    /\ \E roleId \in LanguageRoles \ roles[u] :
         roles' = [roles EXCEPT ![u] = (@ \ LanguageRoles) \cup {roleId}]
    /\ roleCalls' = [roleCalls EXCEPT ![u] = NoCalls]
    /\ UNCHANGED <<normalPollingInterval, normalDue, slow, liveNormalTimers, startCalls,
                   lastItem, everGranted>>
    /\ UNCHANGED <<db, inGuild, stripeSubs, now>>
    /\ UNCHANGED <<resetVars, fastVars>>

IdleGuarded ==
    [pc |-> "idle", queue |-> <<>>, readFlag |-> "unread", schedFlag |-> "unread",
     viaTimer |-> FALSE, acted |-> FALSE, processed |-> FALSE,
     totalCount |-> 0, successCount |-> 0, errorCount |-> 0, revokeFailed |-> 0,
     steps |-> {}]

IdleManual ==
    [pc |-> "idle", queue |-> <<>>, totalCount |-> 0, successCount |-> 0,
     errorCount |-> 0, processed |-> FALSE, revokeFailed |-> 0, steps |-> {}]

IdleMigration == [pc |-> "idle", sawMarker |-> FALSE, acted |-> FALSE]

\* the service before startPolling
InitService ==
    /\ normalPollingInterval = FALSE
    /\ normalDue = 0
    /\ slow = [s \in SlowSweeps |-> IdleSweep]
    /\ liveNormalTimers = 0
    /\ startCalls = 0
    /\ lastItem = [u \in Users |-> NoDispatch]
    /\ roleCalls = [u \in Users |-> NoCalls]
    /\ pendingCheckouts = <<>>
    /\ fastPollingInterval = FALSE
    /\ fastDue = 0
    /\ sessions = <<>>
    /\ fast = [f \in FastSweeps |-> IdleFast]
    /\ click = [c \in Clicks |-> IdleClick]
    /\ liveFastTimers = 0
    /\ lastRemoval = [u \in Users |-> NoRemoval]

InitGuard ==
    /\ flag = "absent"
    /\ targetPassed = FALSE
    /\ ginv = [i \in Guarded |-> IdleGuarded]
    /\ minv = [j \in Manual |-> IdleManual]
    /\ marker = FALSE
    /\ mig = [k \in Migrations |-> IdleMigration]
    /\ bodyRuns = 0
    /\ passes = 0
    /\ migRuns = 0
    /\ overlapped = {}

InitReset ==
    /\ InitGuard
    /\ InitService
    /\ everGranted = [u \in Users |-> TRUE]
    /\ \E arch \in InitialArchetypes :
         /\ db = [u \in {v \in Users : arch[v] # "unverified"} |-> ArchRow(u, arch[u])]
         /\ roles = [u \in Users |-> ArchRoles(u, arch[u])]
         /\ stripeSubs = [s \in {SubOf(v) : v \in {w \in Users : arch[w] = "subscriber"}} |->
                            ProviderSub(CHOOSE u \in Users : SubOf(u) = s, "active", 1)]
    /\ inGuild = [u \in Users |-> TRUE]
    /\ now = 0

\* The rows a sweep can meet for a member whose subscription the provider
\* lists: none, one linked to the subscription in any status, or one without
\* linkage (registered before the subscription model, in the grace period,
\* or past it).
LinkedRows(u) ==
    {UserRow(st, SubOf(u), CustomerOf(u), 1, FALSE) :
        st \in {"active", "past_due", "canceled", "unpaid", "trialing"}}

UnlinkedRows ==
    {UserRow("none", Null, Null, NullTime, FALSE),
     UserRow("trialing", Null, Null, normalInterval, TRUE),
     UserRow("canceled", Null, Null, 0, TRUE)}

\* u1 has a subscription at the provider; u2 is in the grace period, which
\* ends when the slow timer is first due
InitSweep ==
    /\ InitGuard
    /\ InitService
    /\ \E st \in ProviderStatuses :
         stripeSubs = [id \in {SubOf("u1")} |-> ProviderSub("u1", st, 1)]
    /\ \E rows \in [{"u1"} -> LinkedRows("u1") \cup UnlinkedRows] \cup {NoRows} :
         /\ db = [u \in DOMAIN rows \cup {"u2"} |->
                    IF u = "u2" THEN UserRow("trialing", Null, Null, normalInterval \div 2, TRUE)
                    ELSE rows[u]]
         /\ roles = [u \in Users |->
                       IF u = "u1" /\ (u \notin DOMAIN rows
                                         \/ rows[u].subscription_status \in {"canceled", "unpaid"})
                       THEN {ENGLISH, UNVERIFIED}
                       ELSE {ENGLISH, ENGLISH_MEMBER}]
         /\ everGranted = [u \in Users |-> u \in DOMAIN rows \cup {"u2"}]
    /\ inGuild = [u \in Users |-> TRUE]
    /\ now = 0

\* the slow timer and its sweeps
NextSweep ==
    \/ StartPolling
    \/ NormalTimerFire
    \/ AdvanceClock
    \/ \E s \in SlowSweeps : SweepFetchSubscriptions(s)
    \/ \E s \in SlowSweeps : SweepFetchUsers(s)
    \/ \E s \in SlowSweeps : SweepItem(s)
    \/ \E s \in SlowSweeps : SweepFetchLegacy(s)
    \/ \E s \in SlowSweeps : SweepLegacyItem(s)

\* one sweep, its status-change turns taken in their two steps
NextChange ==
    \/ StartPolling
    \/ \E s \in SlowSweeps : SweepFetchSubscriptions(s)
    \/ \E s \in SlowSweeps : SweepFetchUsers(s)
    \/ \E s \in SlowSweeps :
         /\ SweepItem(s)
         /\ lastItem'[Head(slow[s].stripeSubscriptions).discordId].case # 3
    \/ \E s \in SlowSweeps : ChangeWrite(s)
    \/ \E s \in SlowSweeps : ChangeDispatch(s)
    \/ \E u \in Users : LeaveGuild(u)
    \/ \E s \in SlowSweeps : SweepFetchLegacy(s)
    \/ \E s \in SlowSweeps : SweepLegacyItem(s)

\* u1 is listed by the provider with one subscription, or with two (an earlier
\* one and a later one), whose period outlasts both sweeps; u2's grace period
\* is over at the first sweep or outlasts both
InitRepeat ==
    /\ InitGuard
    /\ InitService
    /\ \E ids \in {{"s1"}, {"s1", "s2"}} :
         \E st \in [ids -> ProviderStatuses] :
           stripeSubs = [id \in ids |-> ProviderSub("u1", st[id], 3 * normalInterval)]
    /\ \E row \in LinkedRows("u1") \cup UnlinkedRows, ends \in {0, 3 * normalInterval} :
         /\ db = [u \in Users |->
                    IF u = "u2" THEN UserRow("trialing", Null, Null, ends, TRUE) ELSE row]
         /\ roles = [u \in Users |->
                       IF u = "u1" /\ row.subscription_status \in {"canceled", "unpaid"}
                       THEN {ENGLISH, UNVERIFIED}
                       ELSE {ENGLISH, ENGLISH_MEMBER}]
    /\ everGranted = [u \in Users |-> TRUE]
    /\ inGuild = [u \in Users |-> TRUE]
    /\ now = 0

\* the sweep of startPolling and the sweep of the first timer tick, one after
\* the other, every provider, store and guild call of both answered
NextRepeat ==
    \/ StartPolling
    \/ NormalTimerFire /\ \A s \in SlowSweeps : slow[s].pc = "idle"
    \/ /\ AdvanceClock
       /\ normalPollingInterval
       /\ \A s \in SlowSweeps : slow[s].pc = "idle"
    \/ \E s \in SlowSweeps : SweepFetchSubscriptions(s) /\ ~slow'[s].fetchFailed
    \/ \E s \in SlowSweeps : SweepFetchUsers(s) /\ slow'[s].dbUserMap = db
    \/ \E s \in SlowSweeps : SweepItem(s) /\ slow'[s].failed = {}
    \/ \E s \in SlowSweeps : SweepFetchLegacy(s) /\ slow'[s].legacyUsers = GetLegacyUsers(TRUE)
    \/ \E s \in SlowSweeps : SweepLegacyItem(s) /\ slow'[s].failed = {}

\* u1 is a subscriber in good standing, u2 is in the grace period
InitPolling ==
    /\ InitGuard
    /\ InitService
    /\ db = [u \in Users |->
               IF u = "u1" THEN UserRow("active", SubOf(u), CustomerOf(u), 1, FALSE)
               ELSE UserRow("trialing", Null, Null, normalInterval \div 2, TRUE)]
    /\ stripeSubs = [id \in {SubOf("u1")} |-> ProviderSub("u1", "active", 1)]
    /\ roles = [u \in Users |-> {ENGLISH, ENGLISH_MEMBER}]
    /\ inGuild = [u \in Users |-> TRUE]
    /\ everGranted = [u \in Users |-> TRUE]
    /\ now = 0

\* the service started and stopped while its sweeps run
NextPolling ==
    \/ NextSweep
    \/ StopPolling

MaxStopTime == 2

\* the service stopped and started while members subscribe; nobody pays, and
\* the provider lists no subscription
NextStop ==
    \/ StartPolling
    \/ StopPolling
    \/ \E s \in SlowSweeps : SweepFetchSubscriptions(s)
    \/ \E s \in SlowSweeps : SweepFetchUsers(s)
    \/ \E s \in SlowSweeps : SweepFetchLegacy(s)
    \/ \E c \in Clicks, u \in Users : ClickCheck(c, u)
    \/ \E c \in Clicks : ClickRegister(c)
    \/ FastTimerFire
    \/ \E f \in FastSweeps : FastSessionResult(f)
    \/ Tick /\ now' <= MaxStopTime

\* u1 subscribes through the provider and the store has not yet seen the
\* latest status; u2 holds the member role from before the subscriptions
InitStore ==
    /\ InitGuard
    /\ InitService
    /\ db = [u \in Users |->
                IF u = "u1" THEN UserRow("past_due", SubOf(u), CustomerOf(u), 1, FALSE)
                ELSE UserRow("none", Null, Null, NullTime, FALSE)]
    /\ stripeSubs = [id \in {SubOf("u1")} |-> ProviderSub("u1", "active", 1)]
    /\ roles = [u \in Users |-> {ENGLISH, ENGLISH_MEMBER}]
    /\ inGuild = [u \in Users |-> u = "u1"]
    /\ everGranted = [u \in Users |-> TRUE]
    /\ now = 0

\* the writers of the store side by side, one invocation of each: a slow
\* sweep, the scheduled reset, the reset-all command and the migration script
NextStore ==
    \/ StartPolling
    \/ SweepFetchSubscriptions(1)
    \/ SweepFetchUsers(1)
    \/ SweepItem(1)
    \/ SweepFetchLegacy(1)
    \/ SweepLegacyItem(1)
    \/ PassTarget
    \/ ScheduleReset(1)
    \/ TimerFire(1)
    \/ ExecReadFlag(1)
    \/ ExecMarkInProgress(1)
    \/ ExecFetchUsers(1)
    \/ ExecItem(1)
    \/ ExecComplete(1)
    \/ ManualStart(1)
    \/ ManualCollect(1)
    \/ ManualItem(1)
    \/ MigCheck(1)
    \/ MigConfirm(1)

\* u2 is a legacy member whose grace period is just over, and has not
\* subscribed yet; u1 is a newcomer
InitOverlap ==
    /\ InitGuard
    /\ InitService
    /\ db = [u \in {"u2"} |-> UserRow("trialing", Null, Null, 0, TRUE)]
    /\ stripeSubs = [id \in {} |-> Null]
    /\ roles = [u \in Users |-> IF u = "u2" THEN {ENGLISH, ENGLISH_MEMBER}
                                ELSE {ENGLISH, UNVERIFIED}]
    /\ inGuild = [u \in Users |-> TRUE]
    /\ everGranted = [u \in Users |-> u = "u2"]
    /\ now = 0

\* one slow sweep beside u2's subscribe request, payment and fast sweeps
NextOverlap ==
    \/ StartPolling
    \/ SweepFetchSubscriptions(1)
    \/ SweepFetchUsers(1)
    \/ SweepItem(1)
    \/ SweepFetchLegacy(1)
    \/ SweepLegacyItem(1)
    \/ ClickCheck(1, "u2")
    \/ ClickRegister(1)
    \/ PaySession(1)
    \/ FastTimerFire
    \/ \E f \in FastSweeps : FastSessionResult(f)
    \/ \E f \in FastSweeps : FastProcess(f)
    \/ Tick /\ now' <= MaxStopTime

\* any role set for u1, in the guild or gone from it
InitRoles ==
    /\ InitGuard
    /\ InitService
    /\ db = [u \in Users |-> UserRow("active", SubOf(u), CustomerOf(u), 1, FALSE)]
    /\ stripeSubs = [id \in SubIds |->
                       ProviderSub(CHOOSE u \in Users : SubOf(u) = id, "active", 1)]
    /\ roles \in [Users -> SUBSET RoleIds]
    /\ roles["u2"] = {ENGLISH, UNVERIFIED}
    /\ inGuild \in [Users -> BOOLEAN]
    /\ inGuild["u2"]
    /\ everGranted = [u \in Users |-> FALSE]
    /\ now = 0

\* the role operations called directly
NextRoles ==
    \/ \E u \in Users : AssignCall(u)
    \/ \E u \in Users : RemoveCall(u)
    \/ \E u \in Users : HandleLanguageSelection(u)

\* the one-time operations behind their persisted guards
\* u1 is a newcomer; u2 has a record from the registration form and has left
\* the guild
InitFast ==
    /\ InitGuard
    /\ InitService
    /\ db = [u \in {"u2"} |-> UserRow("none", Null, Null, NullTime, FALSE)]
    /\ roles = [u \in Users |-> {ENGLISH, UNVERIFIED}]
    /\ inGuild = [u \in Users |-> u = "u1"]
    /\ stripeSubs = [id \in {} |-> Null]
    /\ everGranted = [u \in Users |-> FALSE]
    /\ now = 0

NextFast ==
    \/ \E c \in Clicks, u \in Users : ClickCheck(c, u)
    \/ \E c \in Clicks : ClickRegister(c)
    \/ \E i \in 1..MaxSessions : PaySession(i)
    \/ FastTimerFire
    \/ \E f \in FastSweeps : FastSessionResult(f)
    \/ \E f \in FastSweeps : FastProcess(f)
    \/ Tick

\* members subscribe and pay while the service is stopped and started again
NextTracker ==
    \/ StartPolling
    \/ StopPolling
    \/ \E c \in Clicks, u \in Users : ClickCheck(c, u)
    \/ \E c \in Clicks : ClickRegister(c)
    \/ \E i \in 1..MaxSessions : PaySession(i)
    \/ FastTimerFire
    \/ \E f \in FastSweeps : FastSessionResult(f)
    \/ \E f \in FastSweeps : FastProcess(f)
    \/ Tick /\ now' <= MaxStopTime

NextGuard ==
    \/ PassTarget
    \/ \E i \in Guarded : ScheduleReset(i)
    \/ \E i \in Guarded : TimerFire(i)
    \/ \E i \in Guarded : ExecReadFlag(i)
    \/ \E i \in Guarded : ExecMarkInProgress(i)
    \/ \E i \in Guarded : ExecFetchUsers(i)
    \/ \E i \in Guarded : ExecItem(i)
    \/ \E i \in Guarded : ExecComplete(i)
    \/ \E k \in Migrations : MigCheck(k)
    \/ \E k \in Migrations : MigConfirm(k)

\* the scheduled reset and the reset-all command side by side
NextReset ==
    \/ PassTarget
    \/ \E i \in Guarded : ScheduleReset(i)
    \/ \E i \in Guarded : TimerFire(i)
    \/ \E i \in Guarded : ExecReadFlag(i)
    \/ \E i \in Guarded : ExecMarkInProgress(i)
    \/ \E i \in Guarded : ExecFetchUsers(i)
    \/ \E i \in Guarded : ExecItem(i)
    \/ \E i \in Guarded : ExecComplete(i)
    \/ \E j \in Manual : ManualStart(j)
    \/ \E j \in Manual : ManualCollect(j)
    \/ \E j \in Manual : ManualItem(j)

vars == <<worldVars, resetVars, serviceVars>>

SpecGuard == InitReset /\ [][NextGuard]_vars

SpecReset == InitReset /\ [][NextReset]_vars

SpecSweep == InitSweep /\ [][NextSweep]_vars

SpecFast == InitFast /\ [][NextFast]_vars

SpecPolling == InitPolling /\ [][NextPolling]_vars

SpecStop == InitFast /\ [][NextStop]_vars

SpecStore == InitStore /\ [][NextStore]_vars

SpecChange == InitSweep /\ [][NextChange]_vars

SpecOverlap == InitOverlap /\ [][NextOverlap]_vars

SpecRepeat == InitRepeat /\ [][NextRepeat]_vars

SpecTracker == InitFast /\ [][NextTracker]_vars

SpecRoles == InitRoles /\ [][NextRoles]_vars

ResetRunsAtMostOnce == passes <= 1

(***************************************************************************)
(* C3  The flag is checked when the timer fires, not only when the reset   *)
(* is scheduled: an invocation scheduled while the flag was absent whose   *)
(* timer fires after the flag became completed ends without acting.        *)
(***************************************************************************)
FlagCheckedWhenTimerFires ==
    \A i \in Guarded :
        (ginv[i].viaTimer /\ ginv[i].schedFlag = "absent" /\ ginv[i].readFlag = "completed")
        => ginv[i].pc = "done" /\ ~ginv[i].acted

\* the timer of an invocation scheduled on an absent flag fired on a completed one
FlagCheckedWhenTimerFiresWitness ==
    \E i \in Guarded :
        /\ ginv[i].viaTimer
        /\ ginv[i].schedFlag = "absent"
        /\ ginv[i].readFlag = "completed"
        /\ ginv[i].pc = "done"
        /\ passes = 1

(***************************************************************************)
(* C4  Transition to active, as the claim states it: whenever a sweep      *)
(* reads a stored status that differs from a fetched status of active, it  *)
(* invokes the grant; coming from past_due it sends "activated" (the       *)
(* restored notification) and no welcome; coming from any other status it  *)
(* sends no "activated", and a welcome only on the first-ever grant.       *)
(***************************************************************************)
ObservedChangeTo(u, statuses) ==
    /\ lastItem[u].case \in {2, 3}
    /\ lastItem[u].fetched \in statuses
    /\ lastItem[u].stored # lastItem[u].fetched

RestoredOnlyAfterPastDue ==
    \A u \in Users :
        ObservedChangeTo(u, {"active"}) =>
            /\ lastItem[u].grant
            /\ lastItem[u].stored = "past_due" =>
                  "activated" \in lastItem[u].dms /\ "welcome" \notin lastItem[u].dms
            /\ lastItem[u].stored # "past_due" =>
                  /\ "activated" \notin lastItem[u].dms
                  /\ "welcome" \in lastItem[u].dms => lastItem[u].firstGrant

(***************************************************************************)
(* C4 as amended: whenever a sweep reads a stored status that differs from *)
(* a fetched status of active, it invokes the grant; when the record       *)
(* carries the billing linkage it sends "activated" and nothing else,      *)
(* whatever the previous status.                                           *)
(***************************************************************************)
ActiveTransitionGrantsAndReactivates ==
    \A u \in Users :
        ObservedChangeTo(u, {"active"}) =>
            /\ lastItem[u].grant
            /\ ~lastItem[u].revoke
            /\ lastItem[u].linked => lastItem[u].dms = {"activated"}

\* a canceled subscription became active again: grant and "activated"
ActiveTransitionGrantsAndReactivatesWitness ==
    \E u \in Users :
        /\ lastItem[u].case = 3
        /\ lastItem[u].stored = "canceled"
        /\ lastItem[u].fetched = "active"
        /\ lastItem[u].grant
        /\ lastItem[u].dms = {"activated"}
        /\ ENGLISH_MEMBER \in roles[u]

(***************************************************************************)
(* C5  Transition to canceled or unpaid: for every previous stored status, *)
(* when a sweep reads a fetched status canceled or unpaid that differs     *)
(* from the stored one, it invokes the revoke and sends "ended".           *)
(***************************************************************************)
EndedTransitionRevokesAndNotifies ==
    \A u \in Users :
        ObservedChangeTo(u, {"canceled", "unpaid"}) =>
            /\ lastItem[u].revoke
            /\ "ended" \in lastItem[u].dms

(***************************************************************************)
(* C6  Idempotent grant/revoke: for every role set of a member, with the   *)
(* language roles unchanged in between, a second completed call of         *)
(* assignSubscriptionRoles leaves the role set the first one produced, and *)
(* likewise for removeSubscriptionRoles; for a user gone from the guild    *)
(* both calls change nothing.                                              *)
(***************************************************************************)
GrantRevokeIdempotent ==
    \A u \in Users : roleCalls[u].n = 2 => roles[u] = roleCalls[u].once

\* a member holding UNVERIFIED and a language role was granted twice, and a
\* member holding two member roles was revoked twice
GrantRevokeIdempotentWitness ==
    /\ roleCalls["u2"] = [op |-> "grant", n |-> 2, once |-> {ENGLISH, ENGLISH_MEMBER}]
    /\ roles["u2"] = {ENGLISH, ENGLISH_MEMBER}
    /\ inGuild["u1"]
    /\ roleCalls["u1"].op = "revoke"
    /\ roleCalls["u1"].n = 2
    /\ roles["u1"] = {BOSNIAN_CROATIAN_SERBIAN, UNVERIFIED}

\* the tracker holds an entry of checkout session i
Tracked(i) ==
    \E k \in 1..Len(pendingCheckouts) : pendingCheckouts[k].sessionId = i

\* C7 as stated: whenever a member paid a session while it was tracked and
\* less than fastDuration after its registration, and the provider never
\* failed to report it, then once fastDuration has passed since the
\* registration the new-subscription transition has run for the member, grant
\* has been invoked, the stored status is active unless the store refused the
\* write, and the entry is no longer tracked.
PaidWithinWindowConverges ==
    \A i \in 1..Len(sessions) :
       LET u == sessions[i].discordId
       IN  (/\ sessions[i].inWindow
            /\ sessions[i].processed # "unreported"
            /\ now - sessions[i].trackedAt > fastDuration)
           => /\ sessions[i].processed \in {"written", "refused"}
              /\ everGranted[u]
              /\ sessions[i].processed = "written"
                   => u \in DOMAIN db /\ db[u].subscription_status = "active"
              /\ ~Tracked(i)

\* C7, amended: once a fast sweep has read a tracked session as paid and run
\* processNewSubscription for it, grant has been invoked for the member and
\* the welcome notification sent, the stored record carries the session's
\* subscription and its status (active) when the store accepted the write,
\* and the entry stays tracked no longer than a sweep that processed the
\* member is still running.
PaidSessionReadBySweepConverges ==
    \A i \in 1..Len(sessions) :
       LET u == sessions[i].discordId
       IN  sessions[i].processed \in {"written", "refused"}
           => /\ lastItem[u].case = 6
              /\ lastItem[u].grant /\ everGranted[u]
              /\ lastItem[u].dms = {"welcome"}
              /\ sessions[i].processed = "written"
                   => /\ u \in DOMAIN db
                      /\ db[u].subscription_status = "active"
                      /\ db[u].stripe_subscription_id = SubOf(u)
              /\ Tracked(i)
                   => \E f \in FastSweeps : fast[f].pc # "idle" /\ u \in fast[f].processed

\* a paid session was processed, the store accepted the write, the member
\* holds the member role, and the sweep has ended and emptied the tracker
PaidSessionReadBySweepConvergesWitness ==
    \E i \in 1..Len(sessions) :
       /\ sessions[i].processed = "written"
       /\ sessions[i].discordId = "u1"
       /\ ENGLISH_MEMBER \in roles["u1"]
       /\ lastRemoval["u1"].why = "paid"
       /\ pendingCheckouts = <<>>
       /\ \A f \in FastSweeps : fast[f].pc = "idle"

\* no sweep that started after an entry's expiry has ended and left it tracked
RemovedByFirstSweepAfterExpiry ==
    \A k \in 1..Len(pendingCheckouts) : ~pendingCheckouts[k].missed

\* a step that removes the entry of u because of its age leaves the record,
\* the roles and the notifications of u as they were
ExpiryRemovalChangesNothing ==
    \A u \in Users :
       (/\ HasPendingCheckout(pendingCheckouts, u)
        /\ ~HasPendingCheckout(pendingCheckouts', u)
        /\ lastRemoval'[u].why = "expired")
       => /\ (u \in DOMAIN db') = (u \in DOMAIN db)
          /\ u \in DOMAIN db => db'[u] = db[u]
          /\ roles'[u] = roles[u]
          /\ lastItem'[u] = lastItem[u]

\* an entry whose session is unpaid is deleted only when fastDuration has
\* passed since its registration
UnpaidEntryStaysTracked ==
    \A u \in Users :
       lastRemoval[u].why # "none" /\ ~lastRemoval[u].paid => lastRemoval[u].expired

\* C8: an entry whose session is never paid is removed by the first fast sweep
\* that runs after fastDuration has passed since its registration, the removal
\* touches neither the record nor the roles of the member and sends nothing,
\* and before that an unpaid entry stays tracked.
UnpaidEntryExpires ==
    /\ [](RemovedByFirstSweepAfterExpiry /\ UnpaidEntryStaysTracked)
    /\ [][ExpiryRemovalChangesNothing]_vars

\* C9: the fast timer runs exactly while the tracker holds an entry: the
\* track() call that finds the tracker empty starts it, the step that empties
\* the tracker (a processed payment or an expiry) stops it, and no second
\* timer is ever started beside a running one.
FastTimerFollowsTracker ==
    /\ fastPollingInterval = (pendingCheckouts # <<>>)
    /\ liveFastTimers = IF fastPollingInterval THEN 1 ELSE 0

\* the tracker was emptied by an expiry and the timer it had started is stopped
FastTimerFollowsTrackerWitness ==
    /\ lastRemoval["u1"].why = "expired"
    /\ lastRemoval["u1"].expired
    /\ pendingCheckouts = <<>>
    /\ ~fastPollingInterval
    /\ liveFastTimers = 0
    /\ \A f \in FastSweeps : fast[f].pc = "idle"

\* C10: while startPolling has been called and stopPolling has not, exactly
\* one slow timer exists, and a startPolling call that finds the timer running
\* starts no sweep and no timer and leaves the running timer as it is.
StartIsIdempotent ==
    /\ [](startCalls > 0 => normalPollingInterval /\ liveNormalTimers = 1)
    /\ [][(startCalls' = startCalls + 1 /\ normalPollingInterval)
            => /\ slow' = slow
               /\ liveNormalTimers' = liveNormalTimers
               /\ normalPollingInterval' /\ normalDue' = normalDue]_vars

\* startPolling was called twice in a row: one timer, and only the sweep of
\* the first call is running
StartIsIdempotentWitness ==
    /\ startCalls = 2
    /\ normalPollingInterval /\ liveNormalTimers = 1
    /\ now = 0
    /\ Cardinality({s \in SlowSweeps : slow[s].pc # "idle"}) = 1

\* C11: whatever the timers and the tracker were, the step of a stopPolling
\* call leaves the slow timer and the fast timer cleared, no interval handle
\* alive, and the tracker empty.
StopClearsEverything ==
    [][(startCalls > 0 /\ startCalls' = 0)
         => /\ ~normalPollingInterval' /\ liveNormalTimers' = 0
            /\ ~fastPollingInterval' /\ liveFastTimers' = 0
            /\ pendingCheckouts' = <<>>]_vars

\* a checkout was registered in this minute, so that its entry cannot have
\* expired, and stopPolling has emptied the tracker under a running fast sweep
StopClearsEverythingWitness ==
    /\ now = 0
    /\ sessions # <<>>
    /\ startCalls = 0
    /\ pendingCheckouts = <<>>
    /\ ~fastPollingInterval /\ ~normalPollingInterval
    /\ \E f \in FastSweeps : fast[f].pc = "session"

\* C12: in both bulk resets an item whose role removal was rejected is counted
\* exactly once as an error, and every item of the batch is worked through:
\* successes, errors and the items still queued add up to the batch.
FailingItemCountedOnce ==
    /\ \A i \in Guarded :
          /\ ginv[i].errorCount = ginv[i].revokeFailed
          /\ ginv[i].successCount + ginv[i].errorCount + Len(ginv[i].queue) = ginv[i].totalCount
    /\ \A j \in Manual :
          /\ minv[j].errorCount = minv[j].revokeFailed
          /\ minv[j].successCount + minv[j].errorCount + Len(minv[j].queue) = minv[j].totalCount

\* C13: a turn of the legacy-expiry loop for a legacy record in trial whose end
\* date lies in the past revokes, sends the expiry message and stores canceled
\* with the end date of the pass (the row stays as it was only when the store
\* refuses the write); for one whose end date lies in the future the turn
\* writes nothing, calls no role operation and sends nothing.
LegacyExpiryScenario ==
    [][\A s \in SlowSweeps :
         (slow[s].pc = "legacy_loop" /\ slow'[s] # slow[s])
         => LET user == Head(slow[s].legacyUsers)
                u == user.discord_id
            IN  /\ user.subscription_ends_at # NullTime
                     /\ user.subscription_ends_at < slow[s].now
                   => /\ lastItem'[u].case = 5
                      /\ lastItem'[u].revoke
                      /\ lastItem'[u].dms = {"legacy_expiry"}
                      /\ roles'[u] = RevokeRoles(roles, u, NoFail)[u]
                           \/ roles'[u] \in {RevokeRoles(roles, u, r)[u] : r \in RoleIds}
                      /\ \/ /\ db'[u].subscription_status = "canceled"
                            /\ db'[u].subscription_ends_at = slow[s].now
                            /\ db'[u].is_legacy_user
                         \/ db' = db
                /\ user.subscription_ends_at > slow[s].now
                   => /\ db' = db
                      /\ roles' = roles
                      /\ lastItem' = lastItem]_vars

\* the pass at the second tick found u2's grace period over: canceled as of that
\* pass, member role gone, expiry message sent
LegacyExpiryScenarioWitness ==
    /\ lastItem["u2"].case = 5
    /\ lastItem["u2"].dms = {"legacy_expiry"}
    /\ db["u2"].subscription_status = "canceled"
    /\ db["u2"].subscription_ends_at = normalInterval
    /\ db["u2"].is_legacy_user
    /\ roles["u2"] \cap MemberRoleSet = {}
    /\ UNVERIFIED \in roles["u2"]

\* C14: a turn of a sweep's loop, over the provider's subscriptions or over the
\* legacy users, always hands over to the rest of the list, also when its
\* store write was refused or one of its role calls was rejected: the sweep
\* ends only when its lists are worked through.
FailureDoesNotAbortSweep ==
    [][\A s \in SlowSweeps :
         /\ (slow[s].pc = "loop" /\ slow'[s] # slow[s])
            => /\ slow'[s].stripeSubscriptions = Tail(slow[s].stripeSubscriptions)
               /\ slow'[s].pc = IF Len(slow[s].stripeSubscriptions) > 1
                                THEN "loop" ELSE "legacy_fetch"
         /\ (slow[s].pc = "legacy_loop" /\ slow'[s] # slow[s])
            => IF Len(slow[s].legacyUsers) > 1
               THEN /\ slow'[s].legacyUsers = Tail(slow[s].legacyUsers)
                    /\ slow'[s].pc = "legacy_loop"
               ELSE slow'[s].pc = "idle"]_vars

\* u1's turn of a sweep failed, and the same sweep has gone on to the legacy
\* pass, where u2's turn is next
FailureDoesNotAbortSweepWitness ==
    \E s \in SlowSweeps :
        /\ "u1" \in slow[s].failed
        /\ slow[s].pc = "legacy_loop"
        /\ Head(slow[s].legacyUsers).discord_id = "u2"

\* C15: a sweep whose provider listing failed takes no turn of the loop over
\* subscriptions: neither the failed call nor the rest of the main sweep writes
\* a record, changes a role or records a dispatch; the slow timer stays set
\* with its due time, and a timer callback that comes due starts a sweep that
\* begins with the provider listing.
FailedListingSkipsMainSweep ==
    /\ [](\A s \in SlowSweeps : slow[s].fetchFailed => slow[s].pc # "loop")
    /\ [][\A s \in SlowSweeps :
            (slow[s].pc \in {"fetch_stripe", "fetch_users"} /\ slow'[s] # slow[s]
               /\ slow'[s].fetchFailed)
            => /\ db' = db /\ roles' = roles /\ lastItem' = lastItem
               /\ normalPollingInterval' = normalPollingInterval
               /\ normalDue' = normalDue
               /\ liveNormalTimers' = liveNormalTimers
               /\ slow'[s].pc \in {"fetch_users", "legacy_fetch"}]_vars
    /\ [][(normalPollingInterval /\ normalPollingInterval' /\ normalDue' > normalDue
             /\ startCalls' = startCalls)
          => \E s \in SlowSweeps : slow[s].pc = "idle" /\ slow'[s].pc = "fetch_stripe"]_vars

\* the listing of the first tick's sweep failed although the provider holds a
\* subscription; the timer is still set, and the sweep of the next tick has
\* started and is about to list again
FailedListingSkipsMainSweepWitness ==
    /\ stripeSubs # <<>>
    /\ normalPollingInterval /\ liveNormalTimers = 1
    /\ now = normalInterval
    /\ normalDue = 2 * normalInterval
    /\ slow[1].fetchFailed /\ slow[1].pc = "legacy_fetch"
    /\ slow[2].pc = "fetch_stripe"

\* C16: a subscribe request of a user who has a tracked entry, none of whose
\* checkouts has been confirmed and whose entry has not outlived the fast-polling
\* window, is answered with the wait message; the request creates no checkout
\* session and leaves the tracker as it is.
DuplicateCheckoutSuppressed ==
    [][\A c \in Clicks :
         (click[c].pc = "idle" /\ click'[c] # click[c])
         => LET u == click'[c].discordId
            IN  (/\ \E k \in 1..Len(pendingCheckouts) : pendingCheckouts[k].discordId = u
                 /\ \A i \in 1..Len(sessions) :
                       sessions[i].discordId = u => sessions[i].processed = "no"
                 /\ \A k \in 1..Len(pendingCheckouts) :
                       pendingCheckouts[k].discordId = u
                       => ~FastPollingExpired(pendingCheckouts[k], now))
                => /\ click'[c].reply = "wait"
                   /\ click'[c].pc = "idle"
                   /\ sessions' = sessions
                   /\ pendingCheckouts' = pendingCheckouts
                   /\ \A d \in Clicks : click'[d].pc = "creating" => click[d].pc = "creating"]_vars

\* u1's checkout is tracked and unpaid, and a further request of u1 has been
\* answered with the wait message: there is still one session and one entry
DuplicateCheckoutSuppressedWitness ==
    /\ \E c \in Clicks : click[c].reply = "wait" /\ click[c].discordId = "u1"
    /\ Len(sessions) = 1
    /\ sessions[1].discordId = "u1" /\ ~sessions[1].paid
    /\ Len(pendingCheckouts) = 1
    /\ pendingCheckouts[1].discordId = "u1" /\ pendingCheckouts[1].sessionId = 1

SweepsOverlap ==
    /\ \E s \in SlowSweeps : slow[s].pc # "idle"
    /\ \E f \in FastSweeps : fast[f].pc # "idle"

\* C18: when the sweeps have ended and a fast sweep has stored a user's
\* confirmed checkout, the user's record is what the sweeps leave in either
\* order: active, with the subscription of the checkout.  (A slow sweep that
\* runs before the fast one has its writes overwritten by the confirmation; one
\* that runs after it finds nothing to change.)
OverlappingSweepsConverge ==
    \A i \in 1..Len(sessions) :
        (/\ sessions[i].processed = "written"
         /\ \A s \in SlowSweeps : slow[s].pc = "idle"
         /\ \A f \in FastSweeps : fast[f].pc = "idle")
        => LET u == sessions[i].discordId
           IN  /\ u \in DOMAIN db
               /\ db[u].subscription_status = "active"
               /\ db[u].stripe_subscription_id = SubOf(u)

\* C19: when the last turn of a sweep for a user invoked the revoke (the grant)
\* of a status change and the member still holds (still lacks) the member
\* role, a later turn for that user in which no call fails, taken by a sweep
\* that has read the user's record, the provider still listing the subscription
\* as ended (as active), leaves the member without (with) the member role.
FailedTransitionRetried ==
    [][\A s \in SlowSweeps :
         (slow[s].pc = "loop" /\ slow'[s] # slow[s])
         => LET stripeSub == Head(slow[s].stripeSubscriptions)
                u == stripeSub.discordId
            IN  (/\ lastItem[u].case = 3
                 /\ inGuild[u]
                 /\ u \in DOMAIN slow[s].dbUserMap
                 /\ u \notin slow'[s].failed)
                => /\ (/\ lastItem[u].revoke
                       /\ roles[u] \cap MemberRoleSet # {}
                       /\ stripeSub.status \in {"canceled", "unpaid"})
                      => roles'[u] \cap MemberRoleSet = {}
                   /\ (/\ lastItem[u].grant
                       /\ ResolveMemberRole(roles[u]) \notin roles[u]
                       /\ stripeSub.status = "active")
                      => ResolveMemberRole(roles'[u]) \in roles'[u]]_vars

\* C20: a turn that took the missing-linkage branch on a record whose stored
\* status differs from the fetched one has applied the action of the new
\* status as the status-change branch does: grant for active, revoke for
\* canceled and unpaid, and that branch's notification.
MissingLinkageReconciledAsStatusChange ==
    \A u \in Users :
        (lastItem[u].case = 2 /\ lastItem[u].stored # lastItem[u].fetched)
        => /\ lastItem[u].grant = (lastItem[u].fetched = "active")
           /\ lastItem[u].revoke = (lastItem[u].fetched \in {"canceled", "unpaid"})
           /\ lastItem[u].dms = StatusChangeNotifications(lastItem[u].stored,
                                                          lastItem[u].fetched)

\* the record of stripeSub's user carries what the provider listed
CarriesFetched(store, stripeSub) ==
    /\ stripeSub.discordId \in DOMAIN store
    /\ store[stripeSub.discordId].subscription_status = stripeSub.status
    /\ store[stripeSub.discordId].subscription_ends_at = stripeSub.currentPeriodEnd
    /\ store[stripeSub.discordId].stripe_customer_id = stripeSub.customerId
    /\ store[stripeSub.discordId].stripe_subscription_id = stripeSub.subscriptionId

\* C21 as stated: a turn of the sweep for a subscription whose user has no
\* record leaves a record carrying the fetched status, period end, customer id
\* and subscription id, and has invoked the grant when the status is active.
NoRecordTurnCreatesRecord ==
    [][\A s \in SlowSweeps :
         (slow[s].pc = "loop" /\ slow'[s] # slow[s])
         => LET stripeSub == Head(slow[s].stripeSubscriptions)
                u == stripeSub.discordId
            IN  u \notin DOMAIN db
                => /\ CarriesFetched(db', stripeSub)
                   /\ stripeSub.status = "active" => lastItem'[u].grant]_vars

\* C21: a turn of the sweep for a subscription whose user has no record takes
\* case 1, and either does nothing at all (the Discord user could not be
\* fetched: no record, no role call, no message), or writes a record that
\* carries the fetched status, period end, customer id and subscription id
\* (the store holds it unless the write was refused) and invokes the grant
\* when the status is active.
NoRecordTurnSyncsFetchedUser ==
    [][\A s \in SlowSweeps :
         (slow[s].pc = "loop" /\ slow'[s] # slow[s])
         => LET stripeSub == Head(slow[s].stripeSubscriptions)
                u == stripeSub.discordId
            IN  u \notin DOMAIN db
                => /\ lastItem'[u].case = 1
                   /\ \/ /\ db' = db /\ roles' = roles
                         /\ ~lastItem'[u].grant /\ lastItem'[u].dms = {}
                      \/ /\ u \in slow'[s].failed \/ CarriesFetched(db', stripeSub)
                         /\ u \in DOMAIN db' => CarriesFetched(db', stripeSub)
                         /\ stripeSub.status = "active" => lastItem'[u].grant]_vars

\* u1 had no record; the sweep's turn has stored the active subscription the
\* provider lists for u1 and has granted the member role
NoRecordTurnSyncsFetchedUserWitness ==
    /\ lastItem["u1"].case = 1 /\ lastItem["u1"].firstGrant /\ lastItem["u1"].grant
    /\ SubOf("u1") \in DOMAIN stripeSubs
    /\ CarriesFetched(db, StripeSub(SubOf("u1")))
    /\ db["u1"].subscription_status = "active"
    /\ ENGLISH_MEMBER \in roles["u1"] /\ UNVERIFIED \notin roles["u1"]

\* C22: when the role call and the message of a status change are dispatched
\* for a user, the store records the fetched status and period end for that
\* user.
PersistedWhenDispatched ==
    [][\A s \in SlowSweeps :
         (slow[s].pc = "dispatch" /\ slow'[s] # slow[s])
         => LET stripeSub == Head(slow[s].stripeSubscriptions)
                u == stripeSub.discordId
            IN  (lastItem'[u].grant \/ lastItem'[u].revoke \/ lastItem'[u].dms # {})
                => /\ u \in DOMAIN db
                   /\ db[u].subscription_status = stripeSub.status
                   /\ db[u].subscription_ends_at = stripeSub.currentPeriodEnd]_vars

\* The order of the two steps alone: when the role call and the message are
\* dispatched the write has been awaited, and the store records the fetched
\* status and period end unless it refused the write.
WriteAwaitedBeforeDispatch ==
    [][\A s \in SlowSweeps :
         (slow[s].pc = "dispatch" /\ slow'[s] # slow[s])
         => LET stripeSub == Head(slow[s].stripeSubscriptions)
                u == stripeSub.discordId
            IN  (lastItem'[u].grant \/ lastItem'[u].revoke \/ lastItem'[u].dms # {})
                => \/ u \in slow[s].failed
                   \/ /\ u \in DOMAIN db
                      /\ db[u].subscription_status = stripeSub.status
                      /\ db[u].subscription_ends_at = stripeSub.currentPeriodEnd]_vars

\* what a turn of the sweep that met a change to past_due or to trialing in
\* one of the given branches has to have done
KeepsPrivileges(cases) ==
    \A s \in SlowSweeps :
         (slow[s].pc = "loop" /\ slow'[s] # slow[s])
         => LET u == Head(slow[s].stripeSubscriptions).discordId
                turn == lastItem'[u]
            IN  (/\ turn.case \in cases
                 /\ turn.stored # turn.fetched
                 /\ turn.fetched \in {"past_due", "trialing"})
                => /\ ~turn.grant /\ ~turn.revoke
                   /\ roles' = roles
                   /\ turn.dms = IF turn.fetched = "past_due"
                                 THEN {"payment_failed"} ELSE {}

\* C23: a turn of the sweep that meets a stored status different from a
\* fetched status of past_due or trialing invokes neither grant nor revoke and
\* leaves every role set as it is; for past_due it sends the payment-failed
\* warning and nothing else, for trialing it sends nothing.
TransitionsWithoutPrivilegeChange == [][KeepsPrivileges({2, 3})]_vars

\* The same for the status-change branch alone (the record carries the
\* billing linkage).
StatusChangeBranchKeepsPrivileges == [][KeepsPrivileges({3})]_vars

\* what a turn of the sweep has to leave alone when the record of its user,
\* taken from the given rows, is linked and stores the fetched status
NoChangeTurn(s, rows) ==
    (slow[s].pc = "loop" /\ slow'[s] # slow[s])
    => LET stripeSub == Head(slow[s].stripeSubscriptions)
           u == stripeSub.discordId
       IN  (/\ u \in DOMAIN rows
            /\ rows[u].stripe_subscription_id # Null
            /\ rows[u].subscription_status = stripeSub.status)
           => /\ db' = db
              /\ roles' = roles
              /\ ~lastItem'[u].grant /\ ~lastItem'[u].revoke
              /\ lastItem'[u].dms = {}

\* C24: a turn of the sweep for a user whose stored record carries a
\* subscription id and the fetched status writes nothing to the store,
\* changes no role and sends no message.
NoChangeSkips ==
    [][\A s \in SlowSweeps : NoChangeTurn(s, db)]_vars

\* The same for a user whose record the sweep has read at its start.
NoChangeSkipsReadRecord ==
    [][\A s \in SlowSweeps : NoChangeTurn(s, slow[s].dbUserMap)]_vars

\* C25: a turn of the legacy pass writes the record, changes the roles or
\* records a dispatch only of a user whose record, at that moment, is marked
\* legacy, stores trialing and has an end date that has passed; every other
\* record, role set and dispatch is left as it is.
LegacyPassScope ==
    [][\A s \in SlowSweeps :
         (slow[s].pc = "legacy_loop" /\ slow'[s] # slow[s])
         => \A u \in DOMAIN db :
              (db'[u] # db[u] \/ roles'[u] # roles[u] \/ lastItem'[u] # lastItem[u])
              => /\ db[u].is_legacy_user
                 /\ db[u].subscription_status = "trialing"
                 /\ GracePeriodExpired(db[u], now)]_vars

\* C26: a turn of the guarded reset's loop, whatever fails in it, hands over to
\* the rest of the list and leaves the flag alone; the step after the last
\* turn writes the flag as completed; and when no invocation that marked the
\* flag is still under way, the flag is completed.
CompletedWrittenRegardless ==
    /\ [][\A i \in Guarded :
            /\ (ginv[i].pc = "exec_loop" /\ ginv'[i] # ginv[i])
               => /\ ginv'[i].queue = Tail(ginv[i].queue)
                  /\ ginv'[i].pc = IF Len(ginv[i].queue) > 1
                                   THEN "exec_loop" ELSE "exec_complete"
                  /\ flag' = flag
            /\ (ginv[i].pc = "exec_complete" /\ ginv'[i] # ginv[i])
               => /\ flag' = "completed"
                  /\ ginv'[i].pc = "done"]_vars
    /\ []((/\ \E i \in Guarded : ginv[i].acted
           /\ \A i \in Guarded : ginv[i].acted => ginv[i].pc = "done")
          => flag = "completed")

\* the reset has gone through its list; for u1 the role call was rejected and
\* the store refused the reset of the record, and the flag is completed
CompletedWrittenRegardlessWitness ==
    /\ flag = "completed"
    /\ \E i \in Guarded :
         /\ ginv[i].pc = "done" /\ ginv[i].acted
         /\ ginv[i].totalCount = 1 /\ ginv[i].revokeFailed = 1
    /\ db["u1"].subscription_status = "active"
    /\ \A i \in Guarded : ginv[i].acted => ginv[i].pc = "done"

\* C27: in both bulk resets the last turn of an invocation has reached the
\* revoke, the update or deletion of the record and the notification, whatever
\* failed in it (and the cancellation when the record carries a subscription).
StepsIndependent ==
    /\ \A i \in Guarded :
          ginv[i].processed => {"revoke", "record", "notify"} \subseteq ginv[i].steps
    /\ \A j \in Manual :
          minv[j].processed => {"revoke", "record", "notify"} \subseteq minv[j].steps

\* The same for the scheduled reset alone, also after a turn whose role call
\* was rejected.
GuardedStepsIndependent ==
    \A i \in Guarded :
        ginv[i].processed => {"revoke", "record", "notify"} \subseteq ginv[i].steps

\* the entries a suspended fast sweep has yet to examine: those of the live
\* Map its iterator has not passed
RemainingEntries(map, sweep) ==
    SelectSeq(map, LAMBDA e : e.discordId \notin sweep.seen)

\* a slow sweep suspended at a call keeps its lists through a stopPolling call
StopKeepsSlowSweep ==
    [][(startCalls > 0 /\ startCalls' = 0)
       => \A s \in SlowSweeps : slow'[s] = slow[s]]_vars

\* C28: a stopPolling call leaves every sweep that is suspended at a call with
\* the items it has yet to work through: a slow sweep with its lists, a fast
\* sweep with the tracked entries it has not examined.
StopKeepsInFlightSweeps ==
    [][(startCalls > 0 /\ startCalls' = 0)
       => /\ \A s \in SlowSweeps : slow'[s] = slow[s]
          /\ \A f \in FastSweeps :
                fast[f].pc # "idle"
                => /\ fast'[f].pc = fast[f].pc
                   /\ RemainingEntries(pendingCheckouts', fast'[f])
                        = RemainingEntries(pendingCheckouts, fast[f])]_vars

\* C29: a member of the guild whose last role operation was a completed
\* assignSubscriptionRoles holds the member role resolved from the language
\* role (English member, BCS member, else the plain member role) and not
\* UNVERIFIED; one whose last role operation was a completed
\* removeSubscriptionRoles holds none of the member roles and holds UNVERIFIED.
GrantRevokePostconditions ==
    \A u \in Users :
        (inGuild[u] /\ roleCalls[u].n >= 1)
        => /\ roleCalls[u].op = "grant"
              => /\ ResolveMemberRole(roles[u]) \in roles[u]
                 /\ UNVERIFIED \notin roles[u]
                 /\ ENGLISH \in roles[u] => ENGLISH_MEMBER \in roles[u]
                 /\ (ENGLISH \notin roles[u] /\ BOSNIAN_CROATIAN_SERBIAN \in roles[u])
                    => BOSNIAN_CROATIAN_SERBIAN_MEMBER \in roles[u]
                 /\ roles[u] \cap LanguageRoles = {} => MEMBER \in roles[u]
           /\ roleCalls[u].op = "revoke"
              => /\ roles[u] \cap MemberRoleSet = {}
                 /\ UNVERIFIED \in roles[u]

\* u2, who started unverified with the English role, was granted and then
\* revoked; u1, a member with the BCS role only, was granted
GrantRevokePostconditionsWitness ==
    /\ everGranted["u2"]
    /\ roleCalls["u2"].op = "revoke" /\ roleCalls["u2"].n = 1
    /\ roles["u2"] = {ENGLISH, UNVERIFIED}
    /\ inGuild["u1"]
    /\ roleCalls["u1"].op = "grant" /\ roleCalls["u1"].n = 1
    /\ roles["u1"] = {BOSNIAN_CROATIAN_SERBIAN, BOSNIAN_CROATIAN_SERBIAN_MEMBER}

GuardedMutualExclusion ==
    /\ Cardinality({i \in Guarded : ginv[i].acted /\ ginv[i].pc # "done"}) <= 1
    /\ passes <= 1

\* C32: the persisted flag only moves from absent to in_progress and from
\* in_progress to completed; a completed flag stays completed.
FlagMonotone ==
    [][\/ flag' = flag
       \/ flag = "absent" /\ flag' = "in_progress"
       \/ flag = "in_progress" /\ flag' = "completed"]_vars

\* The same for the executions in which the invocations of the reset follow
\* one another.
FlagMonotoneSequential ==
    [][("reset" \notin overlapped /\ "reset" \notin overlapped')
       => \/ flag' = flag
          \/ flag = "absent" /\ flag' = "in_progress"
          \/ flag = "in_progress" /\ flag' = "completed"]_vars

\* A turn of the sweep the first timer tick starts; in SpecRepeat that sweep
\* follows the completed sweep of startPolling.
SecondSweepTurn ==
    /\ normalDue > normalInterval
    /\ \E s \in SlowSweeps : slow[s].pc \in {"loop", "legacy_loop"} /\ slow'[s] # slow[s]

\* a turn that writes nothing, changes no role and sends nothing
QuietTurn ==
    /\ db' = db
    /\ roles' = roles
    /\ \A u \in Users :
         \/ lastItem'[u] = lastItem[u]
         \/ lastItem'[u].dms = {} /\ ~lastItem'[u].grant /\ ~lastItem'[u].revoke

\* C33: the sweep that directly follows a sweep in which every call succeeded,
\* against the same provider listing, writes no record, changes no role and
\* sends no message, also when the provider lists two subscriptions of one
\* identity.
SweepIdempotent == [][SecondSweepTurn => QuietTurn]_vars

\* The same where the provider lists one subscription for the identity.
SweepIdempotentSingleListing ==
    [][(SecondSweepTurn /\ Cardinality(DOMAIN stripeSubs) = 1) => QuietTurn]_vars

\* The sweeps of SpecRepeat are complete and every call of theirs succeeded;
\* the users whose stored status was fetched by a turn of one of "cases" as
\* canceled or unpaid hold no member role.
EndedHoldNoRole(cases) ==
    (normalPollingInterval /\ \A s \in SlowSweeps : slow[s].pc = "idle")
    => \A u \in DOMAIN db :
         ( /\ db[u].subscription_status \in {"canceled", "unpaid"}
           /\ lastItem[u].case \in cases
           /\ lastItem[u].fetched = db[u].subscription_status )
         => roles[u] \cap MemberRoleSet = {}

\* C34: after a completed slow sweep in which every store and guild call
\* succeeded, a user whose stored status is canceled or unpaid holds no member
\* role, whichever case of the sweep stored the status.
RolesFollowStoredStatus == EndedHoldNoRole(1..4)

\* The same for the status-change case alone.
RolesFollowStatusChange == EndedHoldNoRole({3})

\* C35: no second checkout session is issued to a user whose earlier session
\* is neither confirmed nor past the fast-polling window, also when the
\* second request arrives while the first awaits createCheckoutSession; and a
\* session that is neither confirmed nor past the window is the one the
\* tracker holds for its user.
NoDuplicateSession ==
    /\ \A i, j \in 1..Len(sessions) :
         (i < j /\ sessions[i].discordId = sessions[j].discordId)
         => \/ sessions[i].processed # "no"
            \/ sessions[j].trackedAt - sessions[i].trackedAt > fastDuration
    /\ \A i \in 1..Len(sessions) :
         (sessions[i].processed = "no" /\ now - sessions[i].trackedAt <= fastDuration
            /\ ~sessions[i].paid)
         => \E k \in 1..Len(pendingCheckouts) :
              /\ pendingCheckouts[k].discordId = sessions[i].discordId
              /\ pendingCheckouts[k].sessionId = i

\* C36: the cleanup of a fast sweep deletes a user's entry only if that entry
\* is the one the sweep found paid or expired: the entry deleted for a user
\* the sweep queued after processing a payment is the entry of a paid session,
\* the entry deleted for a user it queued as expired has outlived fastDuration.
\* An entry registered for the user while the sweep was suspended is neither.
CleanupRemovesExaminedEntry ==
    \A u \in Users :
       /\ lastRemoval[u].why = "paid" => lastRemoval[u].paid
       /\ lastRemoval[u].why = "expired" => lastRemoval[u].expired

\* C37: whenever no handler is running, a tracker that holds an entry has the
\* fast timer running, whatever sequence of registrations, fast sweeps,
\* stopFastPolling and stopPolling calls led there.
PendingEntryIsPolled == pendingCheckouts # <<>> => fastPollingInterval

\* stopFastPolling has deleted u1's entry after its payment and left the
\* timer to u2's entry, and the service has been stopped before
PendingEntryIsPolledWitness ==
    /\ lastRemoval["u1"].why = "paid"
    /\ \E k \in 1..Len(pendingCheckouts) : pendingCheckouts[k].discordId = "u2"
    /\ fastPollingInterval
    /\ slow[2].pc # "idle"

\* A bulk reset has run to its end and u is as it leaves a user: no member
\* role, the record deleted or its subscription columns cleared.
ResetTookEffect(u) ==
    /\ \/ \E j \in Manual : minv[j].pc = "done" /\ minv[j].processed
       \/ \E i \in Guarded : ginv[i].pc = "done" /\ ginv[i].processed
    /\ roles[u] \cap MemberRoleSet = {}
    /\ \/ u \notin DOMAIN db
       \/ db[u].subscription_status = "none" /\ db[u].stripe_subscription_id = Null

\* A turn of a sweep that has read the store and the provider as they are
\* after the reset leaves the user without member role.  ("cancelled" selects
\* the turns for a subscription the reset's cancel step has ended.)
SweepTurnKeepsReset(cancelled) ==
    \A s \in SlowSweeps :
       (slow[s].pc = "loop" /\ slow'[s] # slow[s])
       => LET stripeSub == Head(slow[s].stripeSubscriptions)
              u == stripeSub.discordId
          IN  ( /\ ResetTookEffect(u)
                /\ slow[s].dbUserMap = db
                /\ stripeSub = StripeSub(stripeSub.subscriptionId)
                /\ cancelled => stripeSub.status = "canceled" )
              => roles'[u] \cap MemberRoleSet = {}

\* C38: once a bulk reset has processed a user, no later sweep gives the user
\* a member role again (no checkout is confirmed in between), also when the
\* reset's cancel of the provider subscription failed.
ResetNotUndoneBySweep == [][SweepTurnKeepsReset(FALSE)]_vars

\* The same where the cancel step succeeded.
CancelledResetNotUndone == [][SweepTurnKeepsReset(TRUE)]_vars

\* C39: a turn of the legacy expiry pass leaves a user whose record is marked
\* legacy and stores active as it is: the record is not written, the roles
\* are not changed and no expiry message is sent.
PayingLegacyNotExpired ==
    [][\A s \in SlowSweeps :
         (slow[s].pc = "legacy_loop" /\ slow'[s] # slow[s])
         => \A u \in DOMAIN db :
              (db[u].is_legacy_user /\ db[u].subscription_status = "active")
              => /\ db'[u] = db[u]
                 /\ roles'[u] = roles[u]
                 /\ lastItem'[u] = lastItem[u]]_vars

====
